---- MODULE Spec2Model ----
(***************************************************************************)
(* Model of the workout tracker's day-key resolver (src/server/workout.ts  *)
(* and its copy in the assistant server module) and of the assistant's     *)
(* intent pipeline (assistant server module).                              *)
(*                                                                         *)
(* Strings are TLA+ strings; a character is a string of length 1.          *)
(* An absolute instant (a JavaScript Date) is a record [d, ms]: d the      *)
(* number of whole days since 1970-01-01T00:00Z and ms the millisecond of  *)
(* that UTC day, so that no number leaves the 32-bit range.                *)
(***************************************************************************)
EXTENDS Integers, Sequences, FiniteSets, TLC

VARIABLES
    dkOp,             \* day-key harness: the operation applied last
    dkIn,             \* day-key harness: its input
    dkOut,            \* day-key harness: its result
    clock,            \* the index in ClockPoints of the instant new Date() returns
    ExerciseModel,    \* collection: the exercise documents [userId, name]
    WeekViewModel,    \* collection: the week views [userId, weekday, exercises]
    WorkoutLogModel,  \* collection: the workout logs [userId, date, weekday, exercises]
    request,          \* the request handled last: its input, its locals, its result
    chat              \* the chat of the client: its thread, its calls in flight

dkVars == <<dkOp, dkIn, dkOut>>

dbVars == <<ExerciseModel, WeekViewModel, WorkoutLogModel>>

appVars == <<clock, ExerciseModel, WeekViewModel, WorkoutLogModel, request>>

vars ==
    <<dkOp, dkIn, dkOut, clock, ExerciseModel, WeekViewModel, WorkoutLogModel, request, chat>>

-----------------------------------------------------------------------------
(* JavaScript built-ins used by the day-key code *)

MsPerHour == 60 * 60 * 1000
MsPerDay == 24 * MsPerHour

Digits == {"0", "1", "2", "3", "4", "5", "6", "7", "8", "9"}

CharAt(s, i) == SubSeq(s, i, i)

DigitValue(c) ==
    CASE c = "0" -> 0 [] c = "1" -> 1 [] c = "2" -> 2 [] c = "3" -> 3
      [] c = "4" -> 4 [] c = "5" -> 5 [] c = "6" -> 6 [] c = "7" -> 7
      [] c = "8" -> 8 [] c = "9" -> 9

DigitChar(n) ==
    CASE n = 0 -> "0" [] n = 1 -> "1" [] n = 2 -> "2" [] n = 3 -> "3"
      [] n = 4 -> "4" [] n = 5 -> "5" [] n = 6 -> "6" [] n = 7 -> "7"
      [] n = 8 -> "8" [] n = 9 -> "9"

\* String(n) for an integer n
RECURSIVE NatToString(_)
NatToString(n) ==
    IF n < 10 THEN DigitChar(n) ELSE NatToString(n \div 10) \o DigitChar(n % 10)

NumberToString(n) == IF n < 0 THEN "-" \o NatToString(-n) ELSE NatToString(n)

\* s.padStart(width, '0')
RECURSIVE padStart(_, _)
padStart(s, width) == IF Len(s) >= width THEN s ELSE padStart("0" \o s, width)

\* Number(s) for a string of decimal digits
RECURSIVE DigitsToNumber(_)
DigitsToNumber(s) ==
    IF Len(s) = 0 THEN 0
    ELSE DigitsToNumber(SubSeq(s, 1, Len(s) - 1)) * 10 + DigitValue(CharAt(s, Len(s)))

AllDigits(s) == \A i \in 1..Len(s) : CharAt(s, i) \in Digits

\* days from 1970-01-01 to the proleptic Gregorian date (y, m, d), m in 1..12
DaysFromCivil(y, m, d) ==
    LET yy  == IF m <= 2 THEN y - 1 ELSE y
        era == yy \div 400
        yoe == yy - era * 400
        mp  == IF m > 2 THEN m - 3 ELSE m + 9
        doy == (153 * mp + 2) \div 5 + d - 1
        doe == yoe * 365 + yoe \div 4 - yoe \div 100 + doy
    IN  era * 146097 + doe - 719468

\* getUTCFullYear / getUTCMonth + 1 / getUTCDate of the day numbered z
CivilFromDays(z) ==
    LET fields(era, yoe, doy, mp, m) ==
            [year  |-> yoe + era * 400 + (IF m <= 2 THEN 1 ELSE 0),
             month |-> m,
             day   |-> doy - (153 * mp + 2) \div 5 + 1]
        fromMp(era, yoe, doy, mp) ==
            fields(era, yoe, doy, mp, IF mp < 10 THEN mp + 3 ELSE mp - 9)
        fromDoy(era, yoe, doy) == fromMp(era, yoe, doy, (5 * doy + 2) \div 153)
        fromYoe(era, doe, yoe) ==
            fromDoy(era, yoe, doe - (365 * yoe + yoe \div 4 - yoe \div 100))
        fromDoe(era, doe) ==
            fromYoe(era, doe,
                    (doe - doe \div 1460 + doe \div 36524 - doe \div 146096) \div 365)
        fromEra(zz, era) == fromDoe(era, zz - era * 146097)
        fromZ(zz) == fromEra(zz, zz \div 146097)
    IN  fromZ(z + 719468)

\* Date.UTC(year, monthIndex, date) in whole days: a year 0..99 means
\* 1900 + year; month and date overflow are carried
DateUTCDays(year, monthIndex, date) ==
    LET yr == IF 0 <= year /\ year <= 99 THEN 1900 + year ELSE year
        ym == yr + (monthIndex \div 12)
        mn == monthIndex % 12
    IN  DaysFromCivil(ym, mn + 1, 1) + date - 1

\* getUTCDay of the day numbered z: 0 = Sunday .. 6 = Saturday
getUTCDay(z) == (z + 4) % 7

-----------------------------------------------------------------------------
(* Day keys: workout.ts *)

\* SELECTED_DAY_KEY_REGEX = /^\d{4}-\d{2}-\d{2}$/
SelectedDayKeyRegexTest(value) ==
    /\ Len(value) = 10
    /\ AllDigits(SubSeq(value, 1, 4))
    /\ CharAt(value, 5) = "-"
    /\ AllDigits(SubSeq(value, 6, 7))
    /\ CharAt(value, 8) = "-"
    /\ AllDigits(SubSeq(value, 9, 10))

formatDayKey(year, month, day) ==
    padStart(NumberToString(year), 4) \o "-" \o padStart(NumberToString(month), 2)
        \o "-" \o padStart(NumberToString(day), 2)

\* the result of an operation that threw Error('Invalid selected day')
InvalidSelectedDay == [ok |-> FALSE, year |-> 0, month |-> 0, day |-> 0, key |-> ""]

parseDayKey(value) ==
    IF ~SelectedDayKeyRegexTest(value) THEN InvalidSelectedDay
    ELSE
        LET checked(year, month, day, control) ==
                IF \/ control.year # year
                   \/ control.month # month
                   \/ control.day # day
                THEN InvalidSelectedDay
                ELSE [ok |-> TRUE, year |-> year, month |-> month, day |-> day,
                      key |-> formatDayKey(year, month, day)]
            parsed(year, month, day) ==
                checked(year, month, day,
                        CivilFromDays(DateUTCDays(year, month - 1, day)))
        IN  parsed(DigitsToNumber(SubSeq(value, 1, 4)),
                   DigitsToNumber(SubSeq(value, 6, 7)),
                   DigitsToNumber(SubSeq(value, 9, 10)))

addDaysToDayKey(dayKey, days) ==
    LET keyOf(date) == [ok |-> TRUE, key |-> formatDayKey(date.year, date.month, date.day)]
        moved(parsed) ==
            IF ~parsed.ok THEN [ok |-> FALSE, key |-> ""]
            ELSE keyOf(CivilFromDays(
                           DateUTCDays(parsed.year, parsed.month - 1, parsed.day + days)))
    IN  moved(parseDayKey(dayKey))

\* Object.values(Weekday): index 0 is Monday
getWeekdayFromDayKey(dayKey) ==
    LET weekdayOf(parsed) ==
            IF ~parsed.ok THEN [ok |-> FALSE, weekday |-> 0]
            ELSE [ok |-> TRUE,
                  weekday |-> (getUTCDay(DateUTCDays(parsed.year, parsed.month - 1,
                                                     parsed.day)) + 6) % 7]
    IN  weekdayOf(parseDayKey(dayKey))

getWeekStartDayKey(dayKey) ==
    LET mondayDiff(day) == IF day = 0 THEN -6 ELSE 1 - day
        weekStart(parsed) ==
            IF ~parsed.ok THEN [ok |-> FALSE, key |-> ""]
            ELSE addDaysToDayKey(
                     dayKey,
                     mondayDiff(getUTCDay(DateUTCDays(parsed.year, parsed.month - 1,
                                                      parsed.day))))
    IN  weekStart(parseDayKey(dayKey))

-----------------------------------------------------------------------------
(* Instants and the zone Europe/Berlin *)

NormInstant(d, ms) == [d |-> d + (ms \div MsPerDay), ms |-> ms % MsPerDay]

InstantPlusMs(t, delta) == NormInstant(t.d, t.ms + delta)

\* a.getTime() - b.getTime(), for instants less than 24 days apart
InstantDiffMs(a, b) == (a.d - b.d) * MsPerDay + (a.ms - b.ms)

InstantLE(a, b) == a.d < b.d \/ (a.d = b.d /\ a.ms <= b.ms)

InstantLT(a, b) == a.d < b.d \/ (a.d = b.d /\ a.ms < b.ms)

\* Date.UTC(year, monthIndex, day, hour, minute, second, millisecond)
DateUTC(year, monthIndex, day, hour, minute, second, millisecond) ==
    NormInstant(DateUTCDays(year, monthIndex, day),
                hour * MsPerHour + minute * 60000 + second * 1000 + millisecond)

\* the last Sunday of a month of 31 days
LastSundayOf(year, month) ==
    LET sundayBefore(last) == last - getUTCDay(last)
    IN  sundayBefore(DaysFromCivil(year, month, 31))

\* The zone's rule as Intl applies it to APP_TIMEZONE = 'Europe/Berlin' (the
\* European Union's rule, in force since 1996): UTC+2 from 01:00 UTC on the last
\* Sunday of March until 01:00 UTC on the last Sunday of October, UTC+1 otherwise.
BerlinOffsetMs(date) ==
    LET offsetIn(year) ==
            IF /\ InstantLE([d |-> LastSundayOf(year, 3), ms |-> MsPerHour], date)
               /\ InstantLT(date, [d |-> LastSundayOf(year, 10), ms |-> MsPerHour])
            THEN 2 * MsPerHour ELSE MsPerHour
    IN  offsetIn(CivilFromDays(date.d).year)

getDatePartsInTimeZone(date) ==
    CivilFromDays(InstantPlusMs(date, BerlinOffsetMs(date)).d)

getTimePartsInTimeZone(date) ==
    LET partsOf(local) ==
            [hour   |-> local.ms \div MsPerHour,
             minute |-> (local.ms % MsPerHour) \div 60000,
             second |-> (local.ms % 60000) \div 1000]
    IN  partsOf(InstantPlusMs(date, BerlinOffsetMs(date)))

getTimeZoneOffsetMs(date) ==
    LET asUtc(parts, timeParts) ==
            DateUTC(parts.year, parts.month - 1, parts.day, timeParts.hour,
                    timeParts.minute, timeParts.second, date.ms % 1000)
    IN  InstantDiffMs(asUtc(getDatePartsInTimeZone(date), getTimePartsInTimeZone(date)),
                      date)

\* the same conversion without the offset: the civil fields read as UTC
zonedDateTimeToUtcNaive(year, month, day, hour, minute, second, millisecond) ==
    DateUTC(year, month - 1, day, hour, minute, second, millisecond)

\* if (secondOffset !== firstOffset) timestamp = utcGuess - secondOffset
zonedSecondPass(utcGuess, firstOffset, timestamp, secondOffset) ==
    IF secondOffset # firstOffset
    THEN InstantPlusMs(utcGuess, -secondOffset)
    ELSE timestamp

\* timestamp = utcGuess - firstOffset; secondOffset = getTimeZoneOffsetMs(timestamp)
zonedFirstPass(utcGuess, firstOffset, timestamp) ==
    zonedSecondPass(utcGuess, firstOffset, timestamp, getTimeZoneOffsetMs(timestamp))

\* firstOffset = getTimeZoneOffsetMs(utcGuess)
zonedFromGuess(utcGuess, firstOffset) ==
    zonedFirstPass(utcGuess, firstOffset, InstantPlusMs(utcGuess, -firstOffset))

zonedFromUtcGuess(utcGuess) == zonedFromGuess(utcGuess, getTimeZoneOffsetMs(utcGuess))

zonedDateTimeToUtc(year, month, day, hour, minute, second, millisecond) ==
    zonedFromUtcGuess(DateUTC(year, month - 1, day, hour, minute, second, millisecond))

dayKeyFromDateInTimeZone(date) ==
    LET keyOf(parts) == formatDayKey(parts.year, parts.month, parts.day)
    IN  keyOf(getDatePartsInTimeZone(date))

NoInstant == [d |-> 0, ms |-> 0]

getUtcRangeForDayKey(dayKey) ==
    LET rangeOf(parsed) ==
            IF ~parsed.ok THEN [ok |-> FALSE, start |-> NoInstant, end |-> NoInstant]
            ELSE [ok    |-> TRUE,
                  start |-> zonedDateTimeToUtc(parsed.year, parsed.month, parsed.day,
                                               0, 0, 0, 0),
                  end   |-> zonedDateTimeToUtc(parsed.year, parsed.month, parsed.day,
                                               23, 59, 59, 999)]
    IN  rangeOf(parseDayKey(dayKey))

\* a variant that stamps a log with the current instant, whatever the day
createLogTimestampNow(dayKey, now) == now

\* createLogTimestampForDayKey(dayKey) when new Date() is now
createLogTimestampForDayKey(dayKey, now) ==
    LET stamp(selected, timeParts) ==
            zonedDateTimeToUtc(selected.year, selected.month, selected.day,
                               timeParts.hour, timeParts.minute, timeParts.second,
                               now.ms % 1000)
    IN  stamp(parseDayKey(dayKey), getTimePartsInTimeZone(now))

-----------------------------------------------------------------------------
(* parseSelectedDayKey and the legacy Date parse it falls back to *)

\* YYYY-MM-DDTHH:mm:ss.sssZ, the date-time format of ECMAScript
IsIsoDateTime(value) ==
    /\ Len(value) = 24
    /\ AllDigits(SubSeq(value, 1, 4)) /\ CharAt(value, 5) = "-"
    /\ AllDigits(SubSeq(value, 6, 7)) /\ CharAt(value, 8) = "-"
    /\ AllDigits(SubSeq(value, 9, 10)) /\ CharAt(value, 11) = "T"
    /\ AllDigits(SubSeq(value, 12, 13)) /\ CharAt(value, 14) = ":"
    /\ AllDigits(SubSeq(value, 15, 16)) /\ CharAt(value, 17) = ":"
    /\ AllDigits(SubSeq(value, 18, 19)) /\ CharAt(value, 20) = "."
    /\ AllDigits(SubSeq(value, 21, 23)) /\ CharAt(value, 24) = "Z"

IsoTimeOfDayMs(value) ==
    DigitsToNumber(SubSeq(value, 12, 13)) * MsPerHour
        + DigitsToNumber(SubSeq(value, 15, 16)) * 60 * 1000
        + DigitsToNumber(SubSeq(value, 18, 19)) * 1000
        + DigitsToNumber(SubSeq(value, 21, 23))

\* new Date(value) for the strings of the model: a date-time string in the
\* ECMAScript format whose fields are all in range is that instant;
\* any other string of the model has no digit and is an invalid date.
\* (The formats an engine accepts beyond that are not modelled.)
DateParse(value) ==
    IF /\ IsIsoDateTime(value)
       /\ parseDayKey(SubSeq(value, 1, 10)).ok
       /\ DigitsToNumber(SubSeq(value, 12, 13)) < 24
       /\ DigitsToNumber(SubSeq(value, 15, 16)) < 60
       /\ DigitsToNumber(SubSeq(value, 18, 19)) < 60
    THEN [ok |-> TRUE,
          date |-> [d |-> DaysFromCivil(DigitsToNumber(SubSeq(value, 1, 4)),
                                        DigitsToNumber(SubSeq(value, 6, 7)),
                                        DigitsToNumber(SubSeq(value, 9, 10))),
                    ms |-> IsoTimeOfDayMs(value)]]
    ELSE [ok |-> FALSE, date |-> NoInstant]

legacyDayKey(legacyDate) ==
    IF legacyDate.ok
    THEN [ok |-> TRUE, key |-> dayKeyFromDateInTimeZone(legacyDate.date)]
    ELSE [ok |-> FALSE, key |-> ""]

\* ok = FALSE stands for the thrown Error('Invalid selected day')
parseSelectedDayKey(value) ==
    IF SelectedDayKeyRegexTest(value)
    THEN [ok |-> parseDayKey(value).ok, key |-> parseDayKey(value).key]
    ELSE legacyDayKey(DateParse(value))

-----------------------------------------------------------------------------
(* Strings: the JavaScript string functions the assistant uses *)

UpperLetters == "ABCDEFGHIJKLMNOPQRSTUVWXYZ"
LowerLetters == "abcdefghijklmnopqrstuvwxyz"

\* the first position of character c in s, 0 when it does not occur
IndexOfChar(c, s) ==
    IF \E i \in 1..Len(s) : CharAt(s, i) = c
    THEN CHOOSE i \in 1..Len(s) : CharAt(s, i) = c /\ \A j \in 1..(i - 1) : CharAt(s, j) # c
    ELSE 0

IsLowerLetter(c) == IndexOfChar(c, LowerLetters) > 0
IsUpperLetter(c) == IndexOfChar(c, UpperLetters) > 0
IsDigit(c) == c \in Digits
IsSpace(c) == c = " "

toLowerChar(c) ==
    IF IsUpperLetter(c) THEN CharAt(LowerLetters, IndexOfChar(c, UpperLetters)) ELSE c

\* s.toLowerCase()
RECURSIVE toLowerCase(_)
toLowerCase(s) ==
    IF Len(s) = 0 THEN ""
    ELSE toLowerChar(CharAt(s, 1)) \o toLowerCase(SubSeq(s, 2, Len(s)))

\* s.replace(/[^a-z0-9 ]/g, ' ')
RECURSIVE replaceNonAlnumSpace(_)
replaceNonAlnumSpace(s) ==
    IF Len(s) = 0 THEN ""
    ELSE (IF IsLowerLetter(CharAt(s, 1)) \/ IsDigit(CharAt(s, 1)) \/ CharAt(s, 1) = " "
          THEN CharAt(s, 1) ELSE " ") \o replaceNonAlnumSpace(SubSeq(s, 2, Len(s)))

\* s.replace(/\s+/g, ' ')
RECURSIVE collapseSpaces(_)
collapseSpaces(s) ==
    IF Len(s) = 0 THEN ""
    ELSE IF IsSpace(CharAt(s, 1)) /\ Len(s) >= 2 /\ IsSpace(CharAt(s, 2))
         THEN collapseSpaces(SubSeq(s, 2, Len(s)))
         ELSE CharAt(s, 1) \o collapseSpaces(SubSeq(s, 2, Len(s)))

\* s.replace(/\s+/g, '')
RECURSIVE removeSpaces(_)
removeSpaces(s) ==
    IF Len(s) = 0 THEN ""
    ELSE (IF IsSpace(CharAt(s, 1)) THEN "" ELSE CharAt(s, 1))
             \o removeSpaces(SubSeq(s, 2, Len(s)))

RECURSIVE trimStart(_)
trimStart(s) ==
    IF Len(s) > 0 /\ IsSpace(CharAt(s, 1)) THEN trimStart(SubSeq(s, 2, Len(s))) ELSE s

RECURSIVE trimEnd(_)
trimEnd(s) ==
    IF Len(s) > 0 /\ IsSpace(CharAt(s, Len(s))) THEN trimEnd(SubSeq(s, 1, Len(s) - 1)) ELSE s

\* s.trim()
trim(s) == trimEnd(trimStart(s))

\* hay.includes(needle)
includes(hay, needle) ==
    \E i \in 1..(Len(hay) - Len(needle) + 1) : SubSeq(hay, i, i + Len(needle) - 1) = needle

\* s.split(' ').filter(Boolean) as a set: the maximal runs of characters other than ' '
splitTokens(s) ==
    {t \in {SubSeq(s, i, j) : i \in 1..Len(s), j \in 1..Len(s)} :
        /\ Len(t) > 0
        /\ ~includes(t, " ")
        /\ includes(" " \o s \o " ", " " \o t \o " ")}

-----------------------------------------------------------------------------
(* The matcher: assistant server module *)

normalizeName(input) == trim(collapseSpaces(replaceNonAlnumSpace(toLowerCase(input))))

getTokenSet(value) == splitTokens(normalizeName(value))

Max(a, b) == IF a >= b THEN a ELSE b

\* The numbers Math.floor reads in the value of an intent or a payload: an
\* integer, a number strictly between floor and floor + 1, or NaN (a missing
\* value, a string that holds no number).
JsNumber(n) == [isNaN |-> FALSE, isInteger |-> TRUE, floor |-> n]

JsFraction(n) == [isNaN |-> FALSE, isInteger |-> FALSE, floor |-> n]

JsNaN == [isNaN |-> TRUE, isInteger |-> FALSE, floor |-> 0]

\* NaN among the results of Math.max(1, ...), which are integers >= 1 otherwise
NaN == 0

\* Math.max(1, Math.floor(value)) for a number as above
mathMaxFloor(value) == IF value.isNaN THEN NaN ELSE Max(1, value.floor)

\* Math.max(1, value) for the result of an earlier Math.max(1, ...) or NaN
mathMaxOne(value) == IF value = NaN THEN NaN ELSE Max(1, value)

\* `${value}`
valueText(value) == IF value = NaN THEN "NaN" ELSE NumberToString(value)

\* the overlap score rounded down
roundOverlapScoreDown(overlap, max) == (overlap * 70) \div max

\* Math.round((overlap / max) * 70): the nearest integer, a half rounded up
roundOverlapScore(overlap, max) == (2 * overlap * 70 + max) \div (2 * max)

tokenOverlapScore(queryTokens, exerciseTokens) ==
    IF Cardinality(queryTokens) = 0 \/ Cardinality(exerciseTokens) = 0 THEN 0
    ELSE roundOverlapScore(Cardinality(queryTokens \cap exerciseTokens),
                           Max(Cardinality(queryTokens), Cardinality(exerciseTokens)))

scoreOfNormalized(queryNorm, exerciseNorm) ==
    IF queryNorm = "" \/ exerciseNorm = "" THEN 0
    ELSE IF queryNorm = exerciseNorm THEN 100
    ELSE IF includes(exerciseNorm, queryNorm) THEN 85
    ELSE IF includes(queryNorm, exerciseNorm) THEN 75
    ELSE tokenOverlapScore(getTokenSet(queryNorm), getTokenSet(exerciseNorm))

getExerciseScore(input, exerciseName) ==
    scoreOfNormalized(normalizeName(input), normalizeName(exerciseName))

-----------------------------------------------------------------------------
(* The regular expressions of parseIntentFallback and deriveSuggestionSeed,
   matched as a backtracking engine matches them: leftmost start, lazy
   quantifiers shortest first, greedy ones longest first *)

StartsWithAt(s, i, w) ==
    i >= 1 /\ i + Len(w) - 1 <= Len(s) /\ SubSeq(s, i, i + Len(w) - 1) = w

\* \w
IsWordChar(c) == IsLowerLetter(c) \/ IsUpperLetter(c) \/ IsDigit(c) \/ c = "_"

IsWordAt(s, i) == i >= 1 /\ i <= Len(s) /\ IsWordChar(CharAt(s, i))

\* \b between the characters i - 1 and i
WordBoundaryAt(s, i) == IsWordAt(s, i - 1) # IsWordAt(s, i)

\* [a-zA-Z0-9 _-]
IsNameChar(c) == IsWordChar(c) \/ c = " " \/ c = "-"

AllNameCharsFrom(s, from) == \A i \in from..Len(s) : IsNameChar(CharAt(s, i))

IsDigitAt(s, i) == i >= 1 /\ i <= Len(s) /\ IsDigit(CharAt(s, i))

IsSpaceAt(s, i) == i >= 1 /\ i <= Len(s) /\ IsSpace(CharAt(s, i))

\* the position after the run of digits (\d+, longest) that starts at p
DigitRunEnd(s, p) ==
    CHOOSE r \in p..(Len(s) + 1) :
        ~IsDigitAt(s, r) /\ \A j \in p..(r - 1) : IsDigitAt(s, j)

\* the position after the run of spaces (\s*, longest) that starts at p
SpaceRunEnd(s, p) ==
    CHOOSE r \in p..(Len(s) + 1) :
        ~IsSpaceAt(s, r) /\ \A j \in p..(r - 1) : IsSpaceAt(s, j)

MinOf(S) == CHOOSE x \in S : \A y \in S : x <= y

\* the positions after an occurrence of (?:log|add|put|new)\b
LogKeywordEnds(lower) ==
    {e \in 4..(Len(lower) + 1) :
        /\ \E k \in {"log", "add", "put", "new"} : StartsWithAt(lower, e - 3, k)
        /\ WordBoundaryAt(lower, e)}

\* reps?\b at u: the position after it, 0 when it does not match
RepsUnitEnd(lower, u) ==
    IF StartsWithAt(lower, u, "reps") /\ WordBoundaryAt(lower, u + 4) THEN u + 4
    ELSE IF StartsWithAt(lower, u, "rep") /\ WordBoundaryAt(lower, u + 3) THEN u + 3
    ELSE 0

\* (?:min|minute|minutes)\b at u
MinutesUnitEnd(lower, u) ==
    IF StartsWithAt(lower, u, "min") /\ WordBoundaryAt(lower, u + 3) THEN u + 3
    ELSE IF StartsWithAt(lower, u, "minute") /\ WordBoundaryAt(lower, u + 6) THEN u + 6
    ELSE IF StartsWithAt(lower, u, "minutes") /\ WordBoundaryAt(lower, u + 7) THEN u + 7
    ELSE 0

\* (\d+)\s*reps?\b at p
RepsEndFrom(lower, p) ==
    IF IsDigitAt(lower, p)
    THEN RepsUnitEnd(lower, SpaceRunEnd(lower, DigitRunEnd(lower, p)))
    ELSE 0

\* (\d+)\s*(?:min|minute|minutes)\b at p
MinutesEndFrom(lower, p) ==
    IF IsDigitAt(lower, p)
    THEN MinutesUnitEnd(lower, SpaceRunEnd(lower, DigitRunEnd(lower, p)))
    ELSE 0

\* .*?(?:to|on|for)?\s*([a-zA-Z0-9 _-]+)$ can match from v
TailMatches(s, v) == v >= 1 /\ v <= Len(s) /\ IsNameChar(CharAt(s, Len(s)))

\* where the lazy .*? stops: the first position whose suffix is all name characters
TailLazyEnd(s, v) == MinOf({q \in v..Len(s) : AllNameCharsFrom(s, q)})

\* (?:to|on|for)? at q, taken only when a name character is left after it
TargetKeywordEnd(lower, q) ==
    IF StartsWithAt(lower, q, "to") /\ q + 2 <= Len(lower) THEN q + 2
    ELSE IF StartsWithAt(lower, q, "on") /\ q + 2 <= Len(lower) THEN q + 2
    ELSE IF StartsWithAt(lower, q, "for") /\ q + 3 <= Len(lower) THEN q + 3
    ELSE q

\* \s* gives back its last space when it reached the end of the string
GroupStartAfterSpaces(s, q) == IF SpaceRunEnd(s, q) > Len(s) THEN Len(s) ELSE SpaceRunEnd(s, q)

\* the text of the last group of a match whose tail starts at v
TailGroup(s, lower, v) ==
    SubSeq(s, GroupStartAfterSpaces(s, TargetKeywordEnd(lower, TailLazyEnd(s, v))), Len(s))

\* the digit positions where (\d+)\s*reps?\b and the rest of repsMatch succeed
RepsMatchStarts(s, lower, e) ==
    {p \in e..Len(s) : RepsEndFrom(lower, p) > 0 /\ TailMatches(s, RepsEndFrom(lower, p))}

TimedMatchStarts(s, lower, e) ==
    {p \in e..Len(s) : MinutesEndFrom(lower, p) > 0 /\ TailMatches(s, MinutesEndFrom(lower, p))}

\* (?:\s*(?:and|:)\s*(\d+))? at v: where its digits start, 0 when it does not match
SecondsDigitsStart(lower, v) ==
    IF StartsWithAt(lower, SpaceRunEnd(lower, v), "and")
         /\ IsDigitAt(lower, SpaceRunEnd(lower, SpaceRunEnd(lower, v) + 3))
    THEN SpaceRunEnd(lower, SpaceRunEnd(lower, v) + 3)
    ELSE IF StartsWithAt(lower, SpaceRunEnd(lower, v), ":")
              /\ IsDigitAt(lower, SpaceRunEnd(lower, SpaceRunEnd(lower, v) + 1))
    THEN SpaceRunEnd(lower, SpaceRunEnd(lower, v) + 1)
    ELSE 0

\* the position after the seconds digits the match keeps, 0 when the group is
\* left out: digits that reach the end of the string give their last one back
\* to the name group
SecondsDigitsEnd(lower, d0) ==
    IF d0 = 0 THEN 0
    ELSE IF DigitRunEnd(lower, d0) <= Len(lower) THEN DigitRunEnd(lower, d0)
    ELSE IF DigitRunEnd(lower, d0) - d0 >= 2 THEN Len(lower)
    ELSE 0

UnknownIntent ==
    [action |-> "unknown", exerciseName |-> "", setType |-> "", value |-> JsNumber(0),
     reply |-> "Try: log set of <exercise> with <reps> reps"]

LogSetIntent(exerciseName, setType, value) ==
    [action |-> "log_set", exerciseName |-> exerciseName, setType |-> setType,
     value |-> JsNumber(value), reply |-> ""]

repsIntentAt(s, lower, p) ==
    LogSetIntent(trim(TailGroup(s, lower, RepsEndFrom(lower, p))), "reps",
                 DigitsToNumber(SubSeq(lower, p, DigitRunEnd(lower, p) - 1)))

timedIntentWith(s, lower, minutes, v, d0, d1) ==
    LogSetIntent(trim(TailGroup(s, lower, IF d1 > 0 THEN d1 ELSE v)), "timed",
                 minutes * 60 + (IF d1 > 0 THEN DigitsToNumber(SubSeq(lower, d0, d1 - 1)) ELSE 0))

timedIntentFrom(s, lower, minutes, v, d0) ==
    timedIntentWith(s, lower, minutes, v, d0, SecondsDigitsEnd(lower, d0))

timedIntentAt(s, lower, p) ==
    timedIntentFrom(s, lower, DigitsToNumber(SubSeq(lower, p, DigitRunEnd(lower, p) - 1)),
                    MinutesEndFrom(lower, p), SecondsDigitsStart(lower, MinutesEndFrom(lower, p)))

intentFromKeyword(s, lower, e) ==
    IF RepsMatchStarts(s, lower, e) # {}
    THEN repsIntentAt(s, lower, MinOf(RepsMatchStarts(s, lower, e)))
    ELSE IF TimedMatchStarts(s, lower, e) # {}
    THEN timedIntentAt(s, lower, MinOf(TimedMatchStarts(s, lower, e)))
    ELSE UnknownIntent

intentOfNormalized(s, lower) ==
    IF LogKeywordEnds(lower) = {} THEN UnknownIntent
    ELSE intentFromKeyword(s, lower, MinOf(LogKeywordEnds(lower)))

parseIntentFallback(message) == intentOfNormalized(trim(message), toLowerCase(trim(message)))

\* (\d+)\s*<unit> at p, the unit being one of the words of units: the position
\* after the unit, 0 when it does not match or nothing but name characters follows
SeedUnitEnd(s, lower, p, units) ==
    IF /\ IsDigitAt(lower, p)
       /\ \E w \in units : StartsWithAt(lower, SpaceRunEnd(lower, DigitRunEnd(lower, p)), w)
       /\ SpaceRunEnd(lower, DigitRunEnd(lower, p)) + 3 <= Len(s)
       /\ AllNameCharsFrom(s, SpaceRunEnd(lower, DigitRunEnd(lower, p)) + 3)
    THEN SpaceRunEnd(lower, DigitRunEnd(lower, p)) + 3
    ELSE 0

\* (?:of|for)? at b
SeedKeywordEnd(lower, b) ==
    IF StartsWithAt(lower, b, "of") THEN b + 2
    ELSE IF StartsWithAt(lower, b, "for") THEN b + 3
    ELSE b

\* where the name group starts after s?\s*(?:of|for)?\s* took a1, b, c and d
\* as their ends: what was taken last is given back when nothing is left
SeedGroupStartOf(s, after, a1, b, c, d) ==
    IF d <= Len(s) THEN d
    ELSE IF d > c THEN Len(s)
    ELSE IF c > b THEN b
    ELSE IF b > a1 THEN Len(s)
    ELSE after

SeedGroupStartB(s, lower, after, a1, b) ==
    SeedGroupStartOf(s, after, a1, b, SeedKeywordEnd(lower, b),
                     SpaceRunEnd(s, SeedKeywordEnd(lower, b)))

SeedGroupStart(s, lower, after, a1) ==
    SeedGroupStartB(s, lower, after, a1, SpaceRunEnd(s, a1))

SeedRepsStarts(s, lower) == {p \in 1..Len(s) : SeedUnitEnd(s, lower, p, {"rep"}) > 0}

SeedTimedStarts(s, lower) == {p \in 1..Len(s) : SeedUnitEnd(s, lower, p, {"sec", "min"}) > 0}

NoSeed == [ok |-> FALSE, setType |-> "", value |-> 0, exerciseName |-> ""]

seedAt(s, lower, p, setType, after, a1) ==
    [ok |-> TRUE, setType |-> setType,
     value |-> Max(1, DigitsToNumber(SubSeq(lower, p, DigitRunEnd(lower, p) - 1))),
     exerciseName |-> trim(SubSeq(s, SeedGroupStart(s, lower, after, a1), Len(s)))]

seedRepsAt(s, lower, p, after) ==
    seedAt(s, lower, p, "reps", after, IF StartsWithAt(lower, after, "s") THEN after + 1 ELSE after)

seedOfMessage(s, lower) ==
    IF SeedRepsStarts(s, lower) # {}
    THEN seedRepsAt(s, lower, MinOf(SeedRepsStarts(s, lower)),
                    SeedUnitEnd(s, lower, MinOf(SeedRepsStarts(s, lower)), {"rep"}))
    ELSE IF SeedTimedStarts(s, lower) # {}
    THEN seedAt(s, lower, MinOf(SeedTimedStarts(s, lower)), "timed",
                SeedUnitEnd(s, lower, MinOf(SeedTimedStarts(s, lower)), {"sec", "min"}),
                SeedUnitEnd(s, lower, MinOf(SeedTimedStarts(s, lower)), {"sec", "min"}))
    ELSE NoSeed

deriveSuggestionSeed(message) == seedOfMessage(message, toLowerCase(message))

-----------------------------------------------------------------------------
(* The values the requests of the model are drawn from, and the functions
   above evaluated once on them: FCached(x) is F(x) for x among those values *)

MaxExercises == 2
MaxSets == 2
MaxShown == 3

Users == {"u1", "u2"}

\* the instants new Date() returns, in the order they pass: the last millisecond
\* of 2024-03-30 in Europe/Berlin and the first one of 2024-03-31, the day the
\* zone's offset changes
ClockPoints ==
    <<DateUTC(2024, 2, 30, 22, 59, 59, 999),
      DateUTC(2024, 2, 30, 23, 0, 0, 0)>>

ClockInstants == {ClockPoints[c] : c \in 1..Len(ClockPoints)}

\* a real day, a well-formed key of no real day, a word, a date-time string
SelectedDays == {"2024-03-31", "2024-02-30", "today", "2024-03-30T23:30:00.000Z"}

ExerciseNames == {"Push Ups", "Push-Ups", "Squats "}

NextNames == {"Push-Ups"}

LogIds == {"0:0", "x:0", "0"}

ActiveTabs == {"", "exercises", "history"}

DirectNames == {"push ups", "Pushups", "push"}

ChatMessages == {"log 15 reps push ups", "log 2 min and 30 to squats", "15 reps of push", "hello"}

\* the messages of the assistant's documented examples
ScenarioMessages == {"log 15 reps of push ups", "do 3 sets of pushups"}

\* what the user types in the chat
ClientInputs == {"15 reps of push", "hello", "yes", "Okay "}

\* rawMessage.trim()
sentTextTable == [rawMessage \in ClientInputs |-> trim(rawMessage)]

ClientTexts == {sentTextTable[rawMessage] : rawMessage \in ClientInputs}

AllMessages == ChatMessages \cup ScenarioMessages \cup ClientTexts

\* answers of a model whose JSON is taken as it comes: a zero, a negative and a
\* fractional value, a value that is no number, and a set type outside the two
ValueIntents ==
    {[LogSetIntent("Push Ups", "reps", 15) EXCEPT !.value = v] :
        v \in {JsNumber(0), JsNumber(0 - 3), JsFraction(2), JsNaN}}
    \cup {LogSetIntent("Push Ups", "timed", 40), LogSetIntent("Push Ups", "weight", 15)}
    \cup {[UnknownIntent EXCEPT !.reply = ""]}

\* answers a model can give to "do 3 sets of pushups": the exercise as the user
\* wrote it, the exercise in other words (with 3 or with "three" as the value), and
\* no intent to log
ScenarioIntents ==
    {LogSetIntent("pushups", "reps", 3),
     LogSetIntent("push-up", "reps", 3),
     [LogSetIntent("push-up", "reps", 3) EXCEPT !.value = JsNaN],
     [UnknownIntent EXCEPT !.reply = "Which exercise do you mean?"]}

ProviderIntents ==
    {LogSetIntent("Push Ups", "reps", 15),
     LogSetIntent("Deadlift", "reps", 15),
     [UnknownIntent EXCEPT !.reply = "Which exercise do you mean?"]}

ProviderOutcomes ==
    {[kind |-> k, intent |-> UnknownIntent] :
        k \in {"http error", "thrown error", "unparsable answer"}}
    \cup {[kind |-> "intent", intent |-> i] : i \in ProviderIntents}

\* the days the assistant reports in selectedDay: the days of the clock's instants
ReportedDays == {dayKeyFromDateInTimeZone(date) : date \in ClockInstants}

parseSelectedDayKeyTable ==
    [value \in SelectedDays \cup ReportedDays |-> parseSelectedDayKey(value)]

parseSelectedDayKeyCached(value) == parseSelectedDayKeyTable[value]

dayKeyFromDateTable == [date \in ClockInstants |-> dayKeyFromDateInTimeZone(date)]

dayKeyFromDateCached(date) == dayKeyFromDateTable[date]

KnownDayKeys ==
    {selected.key : selected \in {r \in {parseSelectedDayKeyTable[value] :
                                            value \in SelectedDays} : r.ok}}
    \cup {dayKeyFromDateTable[date] : date \in ClockInstants}

getWeekdayTable == [dayKey \in KnownDayKeys |-> getWeekdayFromDayKey(dayKey).weekday]

getWeekdayCached(dayKey) == getWeekdayTable[dayKey]

getUtcRangeTable == [dayKey \in KnownDayKeys |-> getUtcRangeForDayKey(dayKey)]

getUtcRangeCached(dayKey) == getUtcRangeTable[dayKey]

createLogTimestampTable ==
    [dayKey \in KnownDayKeys, now \in ClockInstants |->
        createLogTimestampForDayKey(dayKey, now)]

createLogTimestampCached(dayKey, now) == createLogTimestampTable[dayKey, now]

parseIntentFallbackTable == [message \in AllMessages |-> parseIntentFallback(message)]

parseIntentFallbackCached(message) == parseIntentFallbackTable[message]

deriveSuggestionSeedTable == [message \in AllMessages |-> deriveSuggestionSeed(message)]

deriveSuggestionSeedCached(message) == deriveSuggestionSeedTable[message]

trimTable == [name \in ExerciseNames \cup NextNames |-> trim(name)]

trimCached(name) == trimTable[name]

\* the names an exercise document can hold
StoredNames == {trimTable[name] : name \in ExerciseNames \cup NextNames}

\* the names a payload, a message or a model's answer can ask for
AskedNames ==
    DirectNames
    \cup {parseIntentFallbackTable[message].exerciseName : message \in AllMessages}
    \cup {deriveSuggestionSeedTable[message].exerciseName : message \in AllMessages}
    \cup {intent.exerciseName : intent \in ProviderIntents \cup ValueIntents \cup ScenarioIntents}

\* normalizeName(name).replace(/\s+/g, '')
compactName(name) == removeSpaces(normalizeName(name))

compactNameTable == [name \in StoredNames \cup AskedNames |-> compactName(name)]

compactNameCached(name) == compactNameTable[name]

\* queries and exercise names for the matcher alone: equal, contained and containing
\* names, names that share words, names that share none, names that normalize to ""
MatchQueries ==
    {"bench", "Bench Press", "bench press", "incline bench press now", "press bench",
     "incline", "push ups", "Push-Ups!", "leg press", "squat", "leg bench press day",
     "", "!!!"}

MatchNames ==
    {"Incline Bench Press", "Bench Press", "Leg Press", "Press", "Push Ups", "Squats",
     "Close Grip Bench Press", "---"}

getExerciseScoreTable ==
    [input \in AskedNames \cup MatchQueries, exerciseName \in StoredNames \cup MatchNames |->
        getExerciseScore(input, exerciseName)]

getExerciseScoreCached(input, exerciseName) == getExerciseScoreTable[input, exerciseName]

-----------------------------------------------------------------------------
(* buildSuggestions *)

\* exerciseNames.map(name => getExerciseScore(exerciseName, name))
scoresOf(exerciseNames, exerciseName) ==
    [i \in 1..Len(exerciseNames) |-> getExerciseScoreCached(exerciseName, exerciseNames[i])]

\* the place of item i after a stable sort by ascending score
rankOfAscending(scores, i) ==
    1 + Cardinality({j \in 1..Len(scores) : scores[j] < scores[i]})
      + Cardinality({j \in 1..(i - 1) : scores[j] = scores[i]})

\* the place of item i after the stable sort by descending score
rankOf(scores, i) ==
    1 + Cardinality({j \in 1..Len(scores) : scores[j] > scores[i]})
      + Cardinality({j \in 1..(i - 1) : scores[j] = scores[i]})

itemAtRank(scores, r) == CHOOSE i \in 1..Len(scores) : rankOf(scores, i) = r

\* how many items .sort(...).slice(0, 3).filter(item => item.score > 0) keeps
scoredLength(scores) ==
    Cardinality({i \in 1..Len(scores) : rankOf(scores, i) <= 3 /\ scores[i] > 0})

suggestionLabel(setType, value, name) ==
    valueText(value) \o (IF setType = "timed" THEN " sec of " ELSE " reps of ") \o name

suggestion(id, name, setType, value) ==
    [id |-> id, label |-> suggestionLabel(setType, value, name), exerciseName |-> name,
     setType |-> setType, value |-> value]

variationValueOf(setType, value) ==
    IF value = NaN THEN NaN
    ELSE IF setType = "timed" THEN Max(1, value - 5) ELSE Max(1, value \div 3)

\* seq.slice(0, 3)
sliceThree(seq) == SubSeq(seq, 1, IF Len(seq) < 3 THEN Len(seq) ELSE 3)

suggestionsFrom(exerciseNames, scores, setType, value) ==
    IF scoredLength(scores) = 0 THEN <<>>
    ELSE sliceThree(
           <<suggestion("suggestion-1", exerciseNames[itemAtRank(scores, 1)], setType, value)>>
           \o (IF scoredLength(scores) >= 2
               THEN <<suggestion("suggestion-2", exerciseNames[itemAtRank(scores, 2)],
                                 setType, value)>>
               ELSE <<>>)
           \o <<suggestion("suggestion-3", exerciseNames[itemAtRank(scores, 1)], setType,
                           variationValueOf(setType, value))>>)

\* value is an integer or NaN here, so that Math.floor(value) is value
buildSuggestions(exerciseNames, exerciseName, setType, value) ==
    suggestionsFrom(exerciseNames, scoresOf(exerciseNames, exerciseName), setType,
                    mathMaxOne(value))

-----------------------------------------------------------------------------
(* The collections and the queries the handlers run on them.  A document's
   _id is its index in the collection: no handler deletes a document of
   ExerciseModel, WeekViewModel or WorkoutLogModel. *)

FirstOf(S) == IF S = {} THEN 0 ELSE MinOf(S)

NthOf(S, k) == CHOOSE x \in S : Cardinality({y \in S : y < x}) = k - 1

\* ExerciseModel.findOne({ userId, name })
findExercise(exercisesDb, userId, name) ==
    FirstOf({i \in 1..Len(exercisesDb) :
                exercisesDb[i].userId = userId /\ exercisesDb[i].name = name})

exerciseIdsOf(exercisesDb, userId) ==
    {i \in 1..Len(exercisesDb) : exercisesDb[i].userId = userId}

\* a variant that lists the exercises of every user
findExercisesOfAnyUser(exercisesDb, userId) ==
    [k \in 1..Len(exercisesDb) |-> [id |-> k, name |-> exercisesDb[k].name]]

\* ExerciseModel.find({ userId }).lean(), mapped to { _id, name }
findExercises(exercisesDb, userId) ==
    [k \in 1..Cardinality(exerciseIdsOf(exercisesDb, userId)) |->
        [id   |-> NthOf(exerciseIdsOf(exercisesDb, userId), k),
         name |-> exercisesDb[NthOf(exerciseIdsOf(exercisesDb, userId), k)].name]]

namesOf(exercises) == [k \in 1..Len(exercises) |-> exercises[k].name]

\* a variant that inserts without looking for the name
insertExercise(exercisesDb, userId, name) ==
    Append(exercisesDb, [userId |-> userId, name |-> name])

\* findOneAndUpdate({ userId, name }, { $setOnInsert: ... }, { upsert: true })
upsertExercise(exercisesDb, userId, name) ==
    IF findExercise(exercisesDb, userId, name) # 0 THEN exercisesDb
    ELSE Append(exercisesDb, [userId |-> userId, name |-> name])

\* WeekViewModel.findOne({ userId, weekday })
findWeekView(weekViewsDb, userId, weekday) ==
    FirstOf({i \in 1..Len(weekViewsDb) :
                weekViewsDb[i].userId = userId /\ weekViewsDb[i].weekday = weekday})

InSeq(x, seq) == \E i \in 1..Len(seq) : seq[i] = x

addToWeekViewAt(weekViewsDb, userId, weekday, exerciseId, i) ==
    IF i = 0
    THEN Append(weekViewsDb,
                [userId |-> userId, weekday |-> weekday, exercises |-> <<exerciseId>>])
    ELSE IF InSeq(exerciseId, weekViewsDb[i].exercises) THEN weekViewsDb
    ELSE [weekViewsDb EXCEPT ![i].exercises = Append(@, exerciseId)]

addToWeekView(weekViewsDb, userId, weekday, exerciseId) ==
    addToWeekViewAt(weekViewsDb, userId, weekday, exerciseId,
                    findWeekView(weekViewsDb, userId, weekday))

NotExercise(exerciseId, x) == x # exerciseId

\* updateOne({ userId, weekday }, { $pull: { exercises: { exerciseId } } })
pullFromWeekViewAt(weekViewsDb, exerciseId, i) ==
    IF i = 0 THEN weekViewsDb
    ELSE [weekViewsDb EXCEPT
             ![i].exercises = SelectSeq(@, LAMBDA x : NotExercise(exerciseId, x))]

InRange(date, range) == InstantLE(range.start, date) /\ InstantLE(date, range.end)

logMatches(log, userId, weekday, range) ==
    log.userId = userId /\ log.weekday = weekday /\ InRange(log.date, range)

\* a variant that takes the first log of the user, whatever its day
findWorkoutLogOfUser(logsDb, userId, weekday, range) ==
    FirstOf({i \in 1..Len(logsDb) : logsDb[i].userId = userId})

\* WorkoutLogModel.findOne({ userId, weekday, date: { $gte: start, $lte: end } })
findWorkoutLog(logsDb, userId, weekday, range) ==
    FirstOf({i \in 1..Len(logsDb) : logMatches(logsDb[i], userId, weekday, range)})

\* updateMany({ userId, weekday, date: ... },
\*            { $pull: { exercises: { 'exercise.exerciseId': exerciseId } } })
pullFromWorkoutLogs(logsDb, userId, weekday, range, exerciseId) ==
    [i \in 1..Len(logsDb) |->
        IF logMatches(logsDb[i], userId, weekday, range)
        THEN [logsDb[i] EXCEPT
                 !.exercises = SelectSeq(@, LAMBDA e : NotExercise(exerciseId, e.exerciseId))]
        ELSE logsDb[i]]

\* the log found, or WorkoutLogModel.create({ userId, date, weekday, exercises: [] })
withWorkoutLog(logsDb, userId, weekday, date, found) ==
    IF found # 0 THEN logsDb
    ELSE Append(logsDb, [userId |-> userId, date |-> date, weekday |-> weekday,
                         exercises |-> <<>>])

workoutLogIndex(logsDb, found) == IF found # 0 THEN found ELSE Len(logsDb) + 1

\* workoutLog.exercises.find(entry => entry.exercise.exerciseId === exerciseId)
findExerciseEntry(entries, exerciseId) ==
    FirstOf({i \in 1..Len(entries) : entries[i].exerciseId = exerciseId})

withExerciseEntry(logsDb, li, exerciseId) ==
    IF findExerciseEntry(logsDb[li].exercises, exerciseId) # 0 THEN logsDb
    ELSE [logsDb EXCEPT
             ![li].exercises = Append(@, [exerciseId |-> exerciseId, sets |-> <<>>])]

pushToEntry(logsDb, li, exerciseId, sets) ==
    [logsDb EXCEPT
        ![li].exercises[findExerciseEntry(logsDb[li].exercises, exerciseId)].sets = @ \o sets]

\* exerciseEntry.sets.push(...) for each set of sets, after the entry was found or added
pushSets(logsDb, li, exerciseId, sets) ==
    pushToEntry(withExerciseEntry(logsDb, li, exerciseId), li, exerciseId, sets)

RECURSIVE SumOver(_, _)
SumOver(seq, i) == IF i > Len(seq) THEN 0 ELSE seq[i] + SumOver(seq, i + 1)

setsInLog(log) == SumOver([k \in 1..Len(log.exercises) |-> Len(log.exercises[k].sets)], 1)

totalSets(logsDb) == SumOver([i \in 1..Len(logsDb) |-> setsInLog(logsDb[i])], 1)

-----------------------------------------------------------------------------
(* logAssistantSet *)

\* the body of a response of the assistant; undo is <<>> for null
Response(reply, didLogSet, selectedDay, undo, suggestions) ==
    [reply |-> reply, didLogSet |-> didLogSet, selectedDay |-> selectedDay,
     undo |-> undo, suggestions |-> suggestions]

NotInExercisesTabReply == "You are not in exercises tab. Switch to exercises and try again."

notFoundReply(exerciseName, suggestions) ==
    IF Len(suggestions) > 0
    THEN "Exercise \"" \o exerciseName \o "\" not found. Did you mean one of these?"
    ELSE "Exercise \"" \o exerciseName \o "\" not found."

loggedReply(setType, value, name, targetDayKey) ==
    "Logged " \o valueText(value) \o (IF setType = "timed" THEN " sec for " ELSE " reps for ")
        \o name \o " on " \o targetDayKey \o "."

\* payload.exercises.find(exercise =>
\*     normalizeName(exercise.name).replace(/\s+/g, '') === normalizedTarget)
matchedExercise(exercises, normalizedTarget) ==
    FirstOf({k \in 1..Len(exercises) :
                compactNameCached(exercises[k].name) = normalizedTarget})

assistantSet(setType, value, loggedAt) ==
    [type |-> IF setType = "timed" THEN "timed" ELSE "reps",
     reps |-> IF setType = "reps" THEN value ELSE 0,
     duration |-> IF setType = "timed" THEN value ELSE 0,
     loggedAt |-> loggedAt]

\* the undo token `${exerciseId}|${loggedAtMs}|${setType}|${value}`, kept as its fields
undoOf(targetDayKey, exerciseId, loggedAt, setType, value) ==
    <<[selectedDay |-> targetDayKey,
       logId |-> [exerciseId |-> exerciseId, loggedAt |-> loggedAt,
                  setType |-> setType, value |-> value]]>>

logAssistantSetCommit(userId, matched, setType, value, targetDayKey, weekday, loggedAt, logsDb, found) ==
    IF value = NaN
    THEN [resp |-> Response("", FALSE, targetDayKey, <<>>, <<>>),
          logs |-> withWorkoutLog(logsDb, userId, weekday, loggedAt, found),
          threw |-> TRUE]
    ELSE [resp |-> Response(loggedReply(setType, value, matched.name, targetDayKey), TRUE,
                            targetDayKey,
                            undoOf(targetDayKey, matched.id, loggedAt, setType, value),
                            <<>>),
          logs |-> pushSets(withWorkoutLog(logsDb, userId, weekday, loggedAt, found),
                            workoutLogIndex(logsDb, found), matched.id,
                            <<assistantSet(setType, value, loggedAt)>>),
          threw |-> FALSE]

logAssistantSetNotFound(exerciseName, targetDayKey, logsDb, suggestions) ==
    [resp |-> Response(notFoundReply(exerciseName, suggestions), FALSE, targetDayKey, <<>>,
                       suggestions),
     logs |-> logsDb,
     threw |-> FALSE]

logAssistantSetMatched(userId, exercises, exerciseName, setType, value, targetDayKey, now, logsDb, k) ==
    LET commit(weekday, range, loggedAt) ==
            logAssistantSetCommit(userId, exercises[k], setType, value, targetDayKey,
                                  weekday, loggedAt, logsDb,
                                  findWorkoutLog(logsDb, userId, weekday, range))
    IN  IF k = 0
        THEN logAssistantSetNotFound(exerciseName, targetDayKey, logsDb,
                                     buildSuggestions(namesOf(exercises), exerciseName,
                                                      setType, value))
        ELSE commit(getWeekdayCached(targetDayKey), getUtcRangeCached(targetDayKey),
                    createLogTimestampCached(targetDayKey, now))

\* activeTab is "" when the context carries none; value is a number as JsNumber,
\* JsFraction or JsNaN; threw: workoutLog.save() rejected the set and the call threw
logAssistantSet(userId, exercises, exerciseName, setType, value, activeTab, now, logsDb) ==
    LET onDay(targetDayKey) ==
            IF activeTab # "" /\ activeTab # "exercises"
            THEN [resp |-> Response(NotInExercisesTabReply, FALSE, targetDayKey, <<>>, <<>>),
                  logs |-> logsDb,
                  threw |-> FALSE]
            ELSE logAssistantSetMatched(userId, exercises, exerciseName, setType,
                                        mathMaxFloor(value), targetDayKey, now, logsDb,
                                        matchedExercise(exercises,
                                                        compactNameCached(exerciseName)))
    IN  onDay(dayKeyFromDateCached(now))

-----------------------------------------------------------------------------
(* The server: its clock, its collections and its request handlers *)

Now == ClockPoints[clock]

NoResponse == Response("", FALSE, "", <<>>, <<>>)

NoRequest ==
    [handler |-> "", pc |-> "done", userId |-> "", selectedDay |-> "", dayKey |-> "",
     outcome |-> "", wrote |-> FALSE, message |-> "", exerciseName |-> "", exerciseId |-> 0,
     logId |-> "", activeTab |-> "",
     exercises |-> <<>>, provider |-> "", hasKey |-> FALSE, attempts |-> <<>>,
     intent |-> <<>>, resp |-> NoResponse, caught |-> FALSE]

\* the chat before its first message: useState([]) and no mutation in flight; calls
\* is the record of the direct-log calls made so far, undoUsed the ids of the messages
\* whose undo is marked used
NoChat ==
    [messages |-> <<>>, activeTab |-> "exercises", assistantCall |-> <<>>,
     directCall |-> <<>>, calls |-> <<>>, undoCall |-> <<>>, undoUsed |-> {}]

ServerInit ==
    /\ clock = 1
    /\ ExerciseModel = <<>>
    /\ WeekViewModel = <<>>
    /\ WorkoutLogModel = <<>>
    /\ request = NoRequest

AppInit == ServerInit /\ chat = NoChat

DkIdle ==
    /\ dkOp = "idle"
    /\ dkIn = [op |-> "none", year |-> 0, month |-> 0, day |-> 0, days |-> 0]
    /\ dkOut = InvalidSelectedDay

Init == DkIdle /\ AppInit

\* a handler runs from its first statement to its return before the next one starts
Idle == request.pc = "done"

\* time passes
Tick ==
    /\ clock < Len(ClockPoints)
    /\ clock' = clock + 1
    /\ UNCHANGED <<dkVars, chat, dbVars, request>>

\* the request of a handler that takes a selectedDay, once it returned or threw
dayRequest(handler, userId, selectedDay, selected, wrote) ==
    [NoRequest EXCEPT !.handler = handler, !.userId = userId, !.selectedDay = selectedDay,
                      !.dayKey = selected.key,
                      !.outcome = IF selected.ok THEN "success" ELSE "Invalid selected day",
                      !.wrote = wrote]

\* parseSelectedDayKey threw: the handler ends before it reads or writes
ThrowsInvalidDay(handler, userId, selectedDay, selected) ==
    /\ ~selected.ok
    /\ request' = dayRequest(handler, userId, selectedDay, selected, FALSE)
    /\ UNCHANGED dbVars

getWorkoutDayFn(userId, selectedDay) ==
    LET handler(selected) ==
            \/ ThrowsInvalidDay("getWorkoutDayFn", userId, selectedDay, selected)
            \/ /\ selected.ok
               /\ request' = dayRequest("getWorkoutDayFn", userId, selectedDay, selected,
                                        FALSE)
               /\ UNCHANGED dbVars
    IN  /\ Idle
        /\ handler(parseSelectedDayKeyCached(selectedDay))
        /\ UNCHANGED <<dkVars, chat, clock>>

addWorkoutExerciseFn(userId, selectedDay, name) ==
    LET added(selected, weekday, normalizedName) ==
            /\ ExerciseModel' = upsertExercise(ExerciseModel, userId, normalizedName)
            /\ WeekViewModel' =
                   addToWeekView(WeekViewModel, userId, weekday,
                                 findExercise(ExerciseModel', userId, normalizedName))
            /\ UNCHANGED WorkoutLogModel
            /\ request' = dayRequest("addWorkoutExerciseFn", userId, selectedDay, selected,
                                     ExerciseModel' # ExerciseModel
                                         \/ WeekViewModel' # WeekViewModel)
        handler(selected) ==
            \/ ThrowsInvalidDay("addWorkoutExerciseFn", userId, selectedDay, selected)
            \/ /\ selected.ok
               /\ added(selected, getWeekdayCached(selected.key), trimCached(name))
    IN  /\ Idle
        /\ handler(parseSelectedDayKeyCached(selectedDay))
        /\ UNCHANGED <<dkVars, chat, clock>>

removeWorkoutExerciseFn(userId, selectedDay, exerciseId) ==
    LET removed(selected, weekday, range) ==
            /\ WeekViewModel' =
                   pullFromWeekViewAt(WeekViewModel, exerciseId,
                                      findWeekView(WeekViewModel, userId, weekday))
            /\ WorkoutLogModel' =
                   pullFromWorkoutLogs(WorkoutLogModel, userId, weekday, range, exerciseId)
            /\ UNCHANGED ExerciseModel
            /\ request' = dayRequest("removeWorkoutExerciseFn", userId, selectedDay,
                                     selected,
                                     WeekViewModel' # WeekViewModel
                                         \/ WorkoutLogModel' # WorkoutLogModel)
        handler(selected) ==
            \/ ThrowsInvalidDay("removeWorkoutExerciseFn", userId, selectedDay, selected)
            \/ /\ selected.ok
               /\ removed(selected, getWeekdayCached(selected.key),
                          getUtcRangeCached(selected.key))
    IN  /\ Idle
        /\ handler(parseSelectedDayKeyCached(selectedDay))
        /\ UNCHANGED <<dkVars, chat, clock>>

renameWorkoutExerciseFn(userId, exerciseId, nextName) ==
    LET renamed(normalizedName) ==
            IF \E i \in 1..Len(ExerciseModel) :
                   /\ ExerciseModel[i].userId = userId
                   /\ ExerciseModel[i].name = normalizedName
                   /\ i # exerciseId
            THEN ExerciseModel
            ELSE [i \in 1..Len(ExerciseModel) |->
                     IF i = exerciseId /\ ExerciseModel[i].userId = userId
                     THEN [ExerciseModel[i] EXCEPT !.name = normalizedName]
                     ELSE ExerciseModel[i]]
    IN  /\ Idle
        /\ ExerciseModel' = renamed(trimCached(nextName))
        /\ request' = [NoRequest EXCEPT !.handler = "renameWorkoutExerciseFn",
                                        !.userId = userId, !.outcome = "success",
                                        !.exerciseId = exerciseId,
                                        !.exerciseName = nextName,
                                        !.wrote = ExerciseModel' # ExerciseModel]
        /\ UNCHANGED <<dkVars, chat, clock, WeekViewModel, WorkoutLogModel>>

\* what addWorkoutSetFn pushes; reps and duration are 0 when the input has none
manualSets(type, reps, duration) ==
    (IF type = "reps" /\ reps # 0
     THEN <<[type |-> "reps", reps |-> reps, duration |-> 0, loggedAt |-> NoInstant]>>
     ELSE <<>>)
    \o (IF type = "timed" /\ duration # 0
        THEN <<[type |-> "timed", reps |-> 0, duration |-> duration, loggedAt |-> NoInstant]>>
        ELSE <<>>)

addWorkoutSetSaved(userId, weekday, date, exerciseId, sets, logsDb, found) ==
    pushSets(withWorkoutLog(logsDb, userId, weekday, date, found),
             workoutLogIndex(logsDb, found), exerciseId, sets)

addWorkoutSetFn(userId, selectedDay, exerciseId, type, reps, duration) ==
    LET saved(selected, selectedDayRange, weekday, date) ==
            /\ WorkoutLogModel' =
                   addWorkoutSetSaved(userId, weekday, date, exerciseId,
                                      manualSets(type, reps, duration), WorkoutLogModel,
                                      findWorkoutLog(WorkoutLogModel, userId, weekday,
                                                     selectedDayRange))
            /\ UNCHANGED <<ExerciseModel, WeekViewModel>>
            /\ request' = dayRequest("addWorkoutSetFn", userId, selectedDay, selected,
                                     WorkoutLogModel' # WorkoutLogModel)
        handler(selected) ==
            \/ ThrowsInvalidDay("addWorkoutSetFn", userId, selectedDay, selected)
            \/ /\ selected.ok
               /\ saved(selected, getUtcRangeCached(selected.key),
                        getWeekdayCached(selected.key),
                        createLogTimestampCached(selected.key, Now))
    IN  /\ Idle
        /\ handler(parseSelectedDayKeyCached(selectedDay))
        /\ UNCHANGED <<dkVars, chat, clock>>

\* Number(raw) for the strings of the model: the empty string is 0, a string of
\* digits is its value, a '-' before digits negates it, every other string of the
\* model is NaN
NumberOfString(raw) ==
    IF Len(raw) > 1 /\ CharAt(raw, 1) = "-" /\ AllDigits(SubSeq(raw, 2, Len(raw)))
    THEN [nan |-> FALSE, value |-> 0 - DigitsToNumber(SubSeq(raw, 2, Len(raw)))]
    ELSE [nan |-> ~AllDigits(raw), value |-> IF AllDigits(raw) /\ Len(raw) > 0
                                             THEN DigitsToNumber(raw) ELSE 0]

NotANumber == [nan |-> TRUE, value |-> 0]

\* the text before the first ':' of s, s itself when it has none
beforeColon(s) == IF IndexOfChar(":", s) = 0 THEN s ELSE SubSeq(s, 1, IndexOfChar(":", s) - 1)

\* Number(logId.split(':')[0])
exerciseIndexOf(logId) == NumberOfString(beforeColon(logId))

\* Number(logId.split(':')[1]); the element is undefined when logId has no ':'
setIndexOf(logId) ==
    IF IndexOfChar(":", logId) = 0 THEN NotANumber
    ELSE NumberOfString(beforeColon(SubSeq(logId, IndexOfChar(":", logId) + 1, Len(logId))))

\* the start of seq.splice(index, 1): a negative index counts from the end
spliceStart(seq, index) == IF index < 0 THEN Max(Len(seq) + index, 0) ELSE index

\* a variant that removes nothing for a negative index
spliceOneFromStart(seq, index) ==
    IF 0 <= index /\ index < Len(seq)
    THEN SubSeq(seq, 1, index) \o SubSeq(seq, index + 2, Len(seq))
    ELSE seq

\* seq.splice(index, 1)
spliceOne(seq, index) ==
    IF spliceStart(seq, index) < Len(seq)
    THEN SubSeq(seq, 1, spliceStart(seq, index))
             \o SubSeq(seq, spliceStart(seq, index) + 2, Len(seq))
    ELSE seq

\* workoutLog.exercises[exerciseIndex] is undefined for an index outside the array
removeSetAt(logsDb, li, exerciseIndex, setIndex) ==
    IF li = 0 \/ exerciseIndex < 0 \/ exerciseIndex >= Len(logsDb[li].exercises) THEN logsDb
    ELSE IF Len(spliceOne(logsDb[li].exercises[exerciseIndex + 1].sets, setIndex)) = 0
    THEN [logsDb EXCEPT ![li].exercises = spliceOne(@, exerciseIndex)]
    ELSE [logsDb EXCEPT ![li].exercises[exerciseIndex + 1].sets = spliceOne(@, setIndex)]

removeWorkoutSetFn(userId, selectedDay, logId) ==
    LET removed(selected, exerciseIndex, setIndex, found) ==
            /\ WorkoutLogModel' =
                   IF exerciseIndex.nan \/ setIndex.nan THEN WorkoutLogModel
                   ELSE removeSetAt(WorkoutLogModel, found, exerciseIndex.value,
                                    setIndex.value)
            /\ UNCHANGED <<ExerciseModel, WeekViewModel>>
            /\ request' = [dayRequest("removeWorkoutSetFn", userId, selectedDay, selected,
                                      WorkoutLogModel' # WorkoutLogModel)
                               EXCEPT !.logId = logId]
        handler(selected) ==
            \/ ThrowsInvalidDay("removeWorkoutSetFn", userId, selectedDay, selected)
            \/ /\ selected.ok
               /\ removed(selected, exerciseIndexOf(logId), setIndexOf(logId),
                          findWorkoutLog(WorkoutLogModel, userId,
                                         getWeekdayCached(selected.key),
                                         getUtcRangeCached(selected.key)))
    IN  /\ Idle
        /\ handler(parseSelectedDayKeyCached(selectedDay))
        /\ UNCHANGED <<dkVars, chat, clock>>

-----------------------------------------------------------------------------
(* The assistant's handlers *)

assistantRequest(handler, userId, message, exerciseName, activeTab, exercises, now) ==
    [NoRequest EXCEPT !.handler = handler, !.userId = userId, !.message = message,
                      !.exerciseName = exerciseName, !.activeTab = activeTab,
                      !.exercises = exercises, !.dayKey = dayKeyFromDateCached(now)]

FailedReply == "Failed to process assistant request."

\* what the catch of assistantChatFn and of assistantLogDirectFn returns
FailedResponse(dayKey) == Response(FailedReply, FALSE, dayKey, <<>>, <<>>)

\* the handler returns what logAssistantSet returned. When logAssistantSet threw, an
\* awaited call (await, return await) is answered by the handler's catch; a call
\* returned without await (return logAssistantSet(...)) has left the try, and the
\* handler's promise rejects
returnsLogResult(req, result, awaited) ==
    /\ WorkoutLogModel' = result.logs
    /\ request' = [req EXCEPT !.pc = "done",
                              !.outcome = IF result.threw /\ ~awaited THEN "rejected"
                                          ELSE "returned",
                              !.resp = IF ~result.threw THEN result.resp
                                       ELSE IF awaited THEN FailedResponse(req.dayKey)
                                       ELSE NoResponse,
                              !.caught = result.threw /\ awaited,
                              !.wrote = result.logs # WorkoutLogModel]
    /\ UNCHANGED <<ExerciseModel, WeekViewModel>>

assistantLogDirectFn(userId, exerciseName, setType, value, activeTab) ==
    LET handler(exercises) ==
            returnsLogResult(
                assistantRequest("assistantLogDirectFn", userId, "", exerciseName, activeTab,
                                 exercises, Now),
                logAssistantSet(userId, exercises, exerciseName, setType, JsNumber(value),
                                activeTab, Now, WorkoutLogModel),
                TRUE)
    IN  /\ Idle
        /\ handler(findExercises(ExerciseModel, userId))
        /\ UNCHANGED <<dkVars, chat, clock>>

\* the fast path of assistantChatFn: what logAssistantSet returns for the intent
\* parseIntentFallback reads in the message; no result when it reads none
quickResultOf(userId, exercises, quickIntent, activeTab, now, logsDb) ==
    IF quickIntent.action = "log_set"
    THEN <<logAssistantSet(userId, exercises, quickIntent.exerciseName, quickIntent.setType,
                           quickIntent.value, activeTab, now, logsDb)>>
    ELSE <<>>

\* assistantChatFn up to the call of callProviderForIntent, which reads
\* AI_PROVIDER and the provider's API key
assistantChatBegins(req, quickIntent, quickResult, provider, hasKey) ==
    IF quickResult # <<>> /\ (quickResult[1].resp.didLogSet \/ quickResult[1].threw)
    THEN returnsLogResult([req EXCEPT !.exerciseName = quickIntent.exerciseName],
                          quickResult[1], TRUE)
    ELSE /\ request' = [req EXCEPT !.pc = "provider", !.provider = provider,
                                   !.hasKey = hasKey]
         /\ UNCHANGED dbVars

assistantChatFn(userId, message, activeTab, provider, hasKey) ==
    LET handler(exercises, quickIntent) ==
            assistantChatBegins(
                assistantRequest("assistantChatFn", userId, message, "", activeTab,
                                 exercises, Now),
                quickIntent,
                quickResultOf(userId, exercises, quickIntent, activeTab, Now,
                              WorkoutLogModel),
                provider, hasKey)
    IN  /\ Idle
        /\ handler(findExercises(ExerciseModel, userId), parseIntentFallbackCached(message))
        /\ UNCHANGED <<dkVars, chat, clock>>

\* orderedModels of callProviderForIntent: every provider but google is called as openai
orderedModels(provider) ==
    IF provider = "google"
    THEN <<"gemini-3-flash-preview", "gemini-2.5-flash-lite", "gemini-2.5-flash">>
    ELSE <<"gpt-4o-mini", "gpt-4.1-mini">>

\* a variant that calls the first model again in every iteration
modelAtFirst(models, i) == models[1]

\* the model the loop of callProviderForIntent is at in its iteration number i
modelAt(models, i) == models[i]

\* one iteration of for (const model of orderedModels): outcome.kind is
\* "http error" (!response.ok), "thrown error" (the catch), "unparsable answer"
\* (extractJson returned null) or "intent" (extractJson returned outcome.intent)
providerAttempt(outcome) ==
    /\ request.pc = "provider"
    /\ request.hasKey
    /\ request.intent = <<>>
    /\ Len(request.attempts) < Len(orderedModels(request.provider))
    /\ request' = [request EXCEPT
           !.attempts = Append(@, [model |-> modelAt(orderedModels(request.provider),
                                                     Len(request.attempts) + 1),
                                   outcome |-> outcome.kind]),
           !.intent = IF outcome.kind = "intent" THEN <<outcome.intent>> ELSE <<>>]
    /\ UNCHANGED <<dkVars, chat, clock, dbVars>>

\* callProviderForIntent returns: without an API key, with an intent, or after the loop
providerReturns(req) ==
    ~req.hasKey \/ req.intent # <<>> \/ Len(req.attempts) = Len(orderedModels(req.provider))

\* a variant that never reports the failure of all models
failedAllModelsNever(req) == FALSE

\* providerResolution.failedAllModels
failedAllModels(req) == req.intent = <<>>

AllModelsFailedReply ==
    "Failed to reach available Gemini models right now. Please verify GOOGLE_API_KEY and try again."

\* providerResolution.intent || parseIntentFallback(data.message)
inferredIntentOf(req) ==
    IF req.intent # <<>> THEN req.intent[1] ELSE parseIntentFallbackCached(req.message)

seedSuggestions(exerciseNames, seed) ==
    IF seed.ok
    THEN buildSuggestions(exerciseNames, seed.exerciseName, seed.setType, seed.value)
    ELSE <<>>

notLogSetResponse(req, inferredIntent, suggestions) ==
    Response(IF Len(suggestions) > 0 THEN "Did you mean one of these?"
             ELSE inferredIntent.reply,
             FALSE, req.dayKey, <<>>, suggestions)

returnsResponse(req, resp) ==
    /\ request' = [req EXCEPT !.pc = "done", !.outcome = "returned", !.resp = resp]
    /\ UNCHANGED dbVars

assistantChatResolves(req, inferredIntent, now) ==
    IF failedAllModels(req)
    THEN returnsResponse(req, Response(AllModelsFailedReply, FALSE, req.dayKey, <<>>, <<>>))
    ELSE IF inferredIntent.action # "log_set"
    THEN returnsResponse(req, notLogSetResponse(
                                  req, inferredIntent,
                                  seedSuggestions(namesOf(req.exercises),
                                                  deriveSuggestionSeedCached(req.message))))
    ELSE returnsLogResult([req EXCEPT !.exerciseName = inferredIntent.exerciseName],
                          logAssistantSet(req.userId, req.exercises,
                                               inferredIntent.exerciseName,
                                               inferredIntent.setType, inferredIntent.value,
                                               req.activeTab, now, WorkoutLogModel),
                          FALSE)

\* assistantChatFn from the return of callProviderForIntent to its own return
assistantChatReturns ==
    /\ request.pc = "provider"
    /\ providerReturns(request)
    /\ assistantChatResolves(request, inferredIntentOf(request), Now)
    /\ UNCHANGED <<dkVars, chat, clock>>

\* getAuthenticatedUserObjectId throws Error('Unauthorized') in the try of an
\* assistant handler: the session holds no valid user id
assistantUnauthorized(handler) ==
    /\ Idle
    /\ request' = [NoRequest EXCEPT !.handler = handler, !.outcome = "returned",
                                    !.dayKey = dayKeyFromDateCached(Now),
                                    !.resp = FailedResponse(dayKeyFromDateCached(Now)),
                                    !.caught = TRUE]
    /\ UNCHANGED <<dkVars, chat, clock, dbVars>>

\* connectDB cannot connect in the try of an assistant handler: its own catch
\* logs the error and calls process.exit(1); the server takes no further request
connectDBExits(handler) ==
    /\ Idle
    /\ request' = [NoRequest EXCEPT !.handler = handler, !.pc = "exited",
                                    !.outcome = "process exit"]
    /\ UNCHANGED <<dkVars, chat, clock, dbVars>>

-----------------------------------------------------------------------------
(* The chat of the client: sendMessage, the suggestion buttons and the two
   mutations.  A call in flight is served by the server's handler, and what
   the handler returns is delivered to the mutation's onSuccess. *)

MaxMessages == 8

AffirmativeTokens ==
    {"yes", "yeah", "yep", "si", "sure", "correct", "exactly", "ok", "okay"}

\* /^(yes|yeah|yep|si|sure|correct|exactly|ok|okay)$/i.test(message)
isAffirmative(message) == toLowerCase(message) \in AffirmativeTokens

isAffirmativeTable == [message \in ClientTexts |-> isAffirmative(message)]

\* `user-${Date.now()}` and `assistant-${Date.now()}`
messageId(role, createdAt) == [role |-> role, createdAt |-> createdAt]

userMessage(createdAt, text) ==
    [role |-> "user", id |-> messageId("user", createdAt), text |-> text, undo |-> <<>>,
     suggestions |-> <<>>, suggestionsUsed |-> FALSE]

\* the message onSuccess appends for the data a handler returned
assistantMessage(createdAt, data) ==
    [role |-> "assistant", id |-> messageId("assistant", createdAt), text |-> data.reply,
     undo |-> data.undo, suggestions |-> data.suggestions, suggestionsUsed |-> FALSE]

\* Date.now() when onSuccess runs: a later millisecond than the last message's, or
\* the same one when the last message is also the assistant's
assistantCreatedAt(messages) ==
    {Len(messages) + 1}
    \cup (IF messages # <<>> /\ messages[Len(messages)].role = "assistant"
          THEN {messages[Len(messages)].id.createdAt}
          ELSE {})

\* the assistant messages that carry suggestions not used yet
unusedSuggestionTurns(messages) ==
    {i \in 1..Len(messages) : /\ messages[i].role = "assistant"
                              /\ Len(messages[i].suggestions) > 0
                              /\ ~messages[i].suggestionsUsed}

LastOf(indices) == CHOOSE i \in indices : \A j \in indices : j <= i

\* [...messages].reverse().find(...): the index of the message found, 0 when none
lastAssistantWithSuggestions(messages) ==
    IF unusedSuggestionTurns(messages) = {} THEN 0
    ELSE LastOf(unusedSuggestionTurns(messages))

\* currentMessages.map(item => item.id === id ? {...item, suggestionsUsed: true} : item)
markSuggestionsUsed(messages, id) ==
    [i \in 1..Len(messages) |->
        IF messages[i].id = id THEN [messages[i] EXCEPT !.suggestionsUsed = TRUE]
        ELSE messages[i]]

\* the payload of directLogMutation.mutate
directLogPayload(chosen) ==
    [exerciseName |-> chosen.exerciseName, setType |-> chosen.setType,
     value |-> chosen.value]

\* the calls in flight and their answers still have room in the thread
RoomFor(added) ==
    Len(chat.messages) + Len(chat.assistantCall) + Len(chat.directCall) + added
        <= MaxMessages

\* sendMessage(rawMessage), which returns at once for an empty message or while
\* assistantMutation is pending
sendMessage(rawMessage) ==
    LET send(message, last) ==
            IF last # 0 /\ isAffirmativeTable[message]
            THEN chat' = [chat EXCEPT
                     !.messages =
                         markSuggestionsUsed(
                             Append(chat.messages,
                                    userMessage(Len(chat.messages) + 1, message)),
                             chat.messages[last].id),
                     !.directCall =
                         Append(@, directLogPayload(chat.messages[last].suggestions[1])),
                     !.calls = Append(@, [turn |-> last, suggestion |-> 1,
                                          at |-> Len(chat.messages) + 1, via |-> "yes"])]
            ELSE chat' = [chat EXCEPT
                     !.messages = Append(@, userMessage(Len(chat.messages) + 1, message)),
                     !.assistantCall = <<[message |-> message]>>]
    IN  /\ sentTextTable[rawMessage] # ""
        /\ chat.assistantCall = <<>>
        /\ RoomFor(2)
        /\ send(sentTextTable[rawMessage], lastAssistantWithSuggestions(chat.messages))
        /\ UNCHANGED <<dkVars, appVars>>

\* a click on the button of suggestion k of message i, disabled once the message's
\* suggestions are used and while directLogMutation is pending
clickSuggestion(i, k) ==
    /\ i <= Len(chat.messages)
    /\ chat.messages[i].role = "assistant"
    /\ k <= Len(chat.messages[i].suggestions)
    /\ ~chat.messages[i].suggestionsUsed
    /\ chat.directCall = <<>>
    /\ RoomFor(1)
    /\ chat' = [chat EXCEPT
           !.messages = markSuggestionsUsed(chat.messages, chat.messages[i].id),
           !.directCall = Append(@, directLogPayload(chat.messages[i].suggestions[k])),
           !.calls = Append(@, [turn |-> i, suggestion |-> k,
                                at |-> Len(chat.messages), via |-> "click"])]
    /\ UNCHANGED <<dkVars, appVars>>

\* what an assistant handler returned waits for its mutation
ResponseWaits == request.handler \in {"assistantChatFn", "assistantLogDirectFn"}

\* assistantMutation's mutationFn: assistantChatFn({data: {message, context}})
assistantMutationFn ==
    /\ chat.assistantCall # <<>>
    /\ ~ResponseWaits
    /\ assistantChatFn("u1", chat.assistantCall[1].message, chat.activeTab, "google", TRUE)

\* onSuccess of assistantMutation: appendMessage of the reply
assistantMutationSucceeds ==
    /\ chat.assistantCall # <<>>
    /\ request.handler = "assistantChatFn"
    /\ request.pc = "done"
    /\ \E createdAt \in assistantCreatedAt(chat.messages) :
           chat' = [chat EXCEPT
               !.messages = Append(@, assistantMessage(createdAt, request.resp)),
               !.assistantCall = <<>>]
    /\ request' = NoRequest
    /\ UNCHANGED <<dkVars, clock, dbVars>>

\* directLogMutation's mutationFn: assistantLogDirectFn({data: {...payload, context}})
directLogMutationFn ==
    /\ chat.directCall # <<>>
    /\ ~ResponseWaits
    /\ assistantLogDirectFn("u1", chat.directCall[1].exerciseName,
                            chat.directCall[1].setType, chat.directCall[1].value,
                            chat.activeTab)

\* onSuccess of directLogMutation: appendMessage of the reply
directLogMutationSucceeds ==
    /\ chat.directCall # <<>>
    /\ request.handler = "assistantLogDirectFn"
    /\ request.pc = "done"
    /\ \E createdAt \in assistantCreatedAt(chat.messages) :
           chat' = [chat EXCEPT
               !.messages = Append(@, assistantMessage(createdAt, request.resp)),
               !.directCall = Tail(@)]
    /\ request' = NoRequest
    /\ UNCHANGED <<dkVars, clock, dbVars>>

\* String(new Date(loggedAt).getTime()): the milliseconds since 1970 in decimal
getTimeText(date) ==
    NumberToString(date.d * 864 + date.ms \div 100000)
        \o padStart(NumberToString(date.ms % 100000), 5)

\* String(objectId): 24 hexadecimal digits
objectIdText(id) == padStart(NumberToString(id), 24)

\* the undo token as the response carries it:
\* `${exerciseObjectId}|${loggedAtMs}|${setTypeToken}|${valueToken}`
undoLogIdText(logId) ==
    objectIdText(logId.exerciseId) \o "|" \o getTimeText(logId.loggedAt) \o "|"
        \o (IF logId.setType = "timed" THEN "timed" ELSE "reps") \o "|"
        \o valueText(logId.value)

\* a click on "Delete log" of message i, disabled once the undo is used and while
\* undoSetMutation is pending: the undo is marked used and the mutation called
clickUndo(i) ==
    /\ i <= Len(chat.messages)
    /\ chat.messages[i].role = "assistant"
    /\ chat.messages[i].undo # <<>>
    /\ chat.messages[i].id \notin chat.undoUsed
    /\ chat.undoCall = <<>>
    /\ RoomFor(1)
    /\ chat' = [chat EXCEPT
           !.undoUsed = @ \cup {chat.messages[i].id},
           !.undoCall = <<[selectedDay |-> chat.messages[i].undo[1].selectedDay,
                           logId |-> chat.messages[i].undo[1].logId]>>]
    /\ UNCHANGED <<dkVars, appVars>>

\* what removeWorkoutSetFn returned waits for its mutation
UndoWaits == request.handler = "removeWorkoutSetFn"

\* undoSetMutation's mutationFn: removeWorkoutSetFn({data: {selectedDay, logId}})
undoSetMutationFn ==
    /\ chat.undoCall # <<>>
    /\ ~ResponseWaits
    /\ ~UndoWaits
    /\ removeWorkoutSetFn("u1", chat.undoCall[1].selectedDay,
                          undoLogIdText(chat.undoCall[1].logId))

DeletedReply == "Deleted logged set."

\* onSuccess of undoSetMutation: appendMessage of 'Deleted logged set.' and the undo
\* of every message with that logId marked used
undoSetMutationSucceeds ==
    /\ chat.undoCall # <<>>
    /\ UndoWaits
    /\ request.outcome = "success"
    /\ \E createdAt \in assistantCreatedAt(chat.messages) :
           chat' = [chat EXCEPT
               !.messages = Append(@, assistantMessage(createdAt,
                                          Response(DeletedReply, FALSE, "", <<>>, <<>>))),
               !.undoUsed = @ \cup {chat.messages[i].id :
                                       i \in {j \in 1..Len(chat.messages) :
                                                 /\ chat.messages[j].undo # <<>>
                                                 /\ chat.messages[j].undo[1].logId
                                                        = chat.undoCall[1].logId}},
               !.undoCall = <<>>]
    /\ request' = NoRequest
    /\ UNCHANGED <<dkVars, clock, dbVars>>

-----------------------------------------------------------------------------
(* The requests the server receives *)

WithinBounds ==
    /\ Len(ExerciseModel') <= MaxExercises
    /\ totalSets(WorkoutLogModel') <= MaxSets

\* one user's requests to the handlers that take a selectedDay, and the direct log
Next ==
    \/ Tick
    \/ \E d \in SelectedDays : getWorkoutDayFn("u1", d)
    \/ \E d \in SelectedDays : addWorkoutExerciseFn("u1", d, "Push Ups") /\ WithinBounds
    \/ \E d \in SelectedDays : removeWorkoutExerciseFn("u1", d, 1)
    \/ \E d \in SelectedDays : addWorkoutSetFn("u1", d, 1, "reps", 12, 0) /\ WithinBounds
    \/ \E d \in SelectedDays, l \in LogIds : removeWorkoutSetFn("u1", d, l)
    \/ assistantLogDirectFn("u1", "push ups", "reps", 15, "exercises") /\ WithinBounds

Spec == Init /\ [][Next]_vars

\* two users' exercise lists and one user's requests to the assistant
NextAssistant ==
    \/ \E n \in ExerciseNames : addWorkoutExerciseFn("u1", "2024-03-31", n) /\ WithinBounds
    \/ addWorkoutExerciseFn("u2", "2024-03-31", "Push Ups") /\ WithinBounds
    \/ \E id \in 1..MaxExercises : renameWorkoutExerciseFn("u1", id, "Push-Ups")
    \/ \E n \in DirectNames, t \in ActiveTabs :
           assistantLogDirectFn("u1", n, "reps", 15, t) /\ WithinBounds
    \/ \E m \in ChatMessages, t \in {"exercises", "history"} :
           assistantChatFn("u1", m, t, "google", TRUE) /\ WithinBounds
    \/ \E o \in ProviderOutcomes : o.kind \in {"http error", "intent"} /\ providerAttempt(o)
    \/ assistantChatReturns /\ WithinBounds

SpecAssistant == Init /\ [][NextAssistant]_vars

\* the chat requests of one user with one exercise, every provider and every outcome
NextProvider ==
    \/ addWorkoutExerciseFn("u1", "2024-03-31", "Push Ups") /\ WithinBounds
    \/ \E m \in ChatMessages, p \in {"google", "openai"}, h \in BOOLEAN :
           assistantChatFn("u1", m, "exercises", p, h) /\ WithinBounds
    \/ \E o \in ProviderOutcomes : providerAttempt(o)
    \/ assistantChatReturns /\ WithinBounds

SpecProvider == Init /\ [][NextProvider]_vars

\* the exercise lists of two users under every order of adding and renaming
MaxNamed == 3

NextExercises ==
    \/ \E n \in ExerciseNames, d \in {"2024-03-31", "today"} :
           addWorkoutExerciseFn("u1", d, n) /\ Len(ExerciseModel') <= MaxNamed
    \/ addWorkoutExerciseFn("u2", "2024-03-31", "Push Ups") /\ Len(ExerciseModel') <= MaxNamed
    \/ \E id \in 1..MaxNamed, n \in ExerciseNames :
           renameWorkoutExerciseFn("u1", id, n)

SpecExercises == Init /\ [][NextExercises]_vars

\* the assistant's commits and the manual ones for the day the client shows, while
\* midnight passes in Europe/Berlin
NextToday ==
    \/ Tick
    \/ addWorkoutExerciseFn("u1", "2024-03-31", "Push Ups") /\ WithinBounds
    \/ addWorkoutSetFn("u1", "2024-03-31", 1, "reps", 12, 0) /\ WithinBounds
    \/ \E setType \in {"reps", "timed"} :
           assistantLogDirectFn("u1", "push ups", setType, 15, "exercises") /\ WithinBounds
    \/ \E m \in {"log 15 reps push ups", "hello"} :
           assistantChatFn("u1", m, "exercises", "google", TRUE) /\ WithinBounds
    \/ providerAttempt([kind |-> "intent", intent |-> LogSetIntent("Push Ups", "timed", 40)])
    \/ assistantChatReturns /\ WithinBounds

SpecToday == Init /\ [][NextToday]_vars

AssistantHandlers == {"assistantChatFn", "assistantLogDirectFn"}

\* every way a set reaches storage, with the values each path lets through, and the
\* failures an assistant handler meets before it reads the payload
NextStored ==
    \/ addWorkoutExerciseFn("u1", "2024-03-31", "Push Ups") /\ WithinBounds
    \/ \E type \in {"reps", "timed"}, reps \in {0, 1, 12}, duration \in {0, 30} :
           addWorkoutSetFn("u1", "2024-03-31", 1, type, reps, duration) /\ WithinBounds
    \/ \E setType \in {"reps", "timed"}, value \in {1, 15} :
           assistantLogDirectFn("u1", "push ups", setType, value, "exercises") /\ WithinBounds
    \/ \E m \in {"log 15 reps push ups", "hello"} :
           assistantChatFn("u1", m, "exercises", "google", TRUE) /\ WithinBounds
    \/ \E i \in ValueIntents : providerAttempt([kind |-> "intent", intent |-> i])
    \/ assistantChatReturns /\ WithinBounds
    \/ \E h \in AssistantHandlers : assistantUnauthorized(h)
    \/ \E h \in AssistantHandlers : connectDBExits(h)

SpecStored == Init /\ [][NextStored]_vars

\* the chat requests of the documented examples, in every tab, with the answers a
\* model can give
NextScenario ==
    \/ \E n \in {"Push Ups", "Squats "} :
           addWorkoutExerciseFn("u1", "2024-03-31", n) /\ WithinBounds
    \/ \E m \in ScenarioMessages \cup {"log 15 reps push ups"}, t \in ActiveTabs :
           assistantChatFn("u1", m, t, "google", TRUE) /\ WithinBounds
    \/ \E i \in ScenarioIntents : providerAttempt([kind |-> "intent", intent |-> i])
    \/ providerAttempt([kind |-> "http error", intent |-> UnknownIntent])
    \/ assistantChatReturns /\ WithinBounds

SpecScenario == Init /\ [][NextScenario]_vars

\* the chat is open in one tab
ClientInit ==
    /\ DkIdle
    /\ ServerInit
    /\ chat \in {[NoChat EXCEPT !.activeTab = t] : t \in {"exercises", "history"}}

\* one user's chat: what they type and click, the calls it makes to the assistant
\* handlers, and a model that reads no intent in the messages
NextClient ==
    \/ addWorkoutExerciseFn("u1", "2024-03-31", "Push Ups") /\ WithinBounds /\ ~ResponseWaits
    \/ \E rawMessage \in ClientInputs : sendMessage(rawMessage)
    \/ \E i \in 1..MaxMessages, k \in 1..3 : clickSuggestion(i, k)
    \/ assistantMutationFn /\ WithinBounds
    \/ providerAttempt([kind |-> "intent",
                        intent |-> [UnknownIntent EXCEPT
                                       !.reply = "Which exercise do you mean?"]])
    \/ assistantChatReturns /\ WithinBounds
    \/ assistantMutationSucceeds
    \/ directLogMutationFn /\ WithinBounds
    \/ directLogMutationSucceeds

SpecClient == ClientInit /\ [][NextClient]_vars

\* one user's chat in the exercises tab: sets logged from suggestions and by hand,
\* and the clicks on "Delete log"
NextUndo ==
    \/ addWorkoutExerciseFn("u1", "2024-03-31", "Push Ups")
           /\ WithinBounds /\ ~ResponseWaits /\ ~UndoWaits
    \/ addWorkoutSetFn("u1", "2024-03-30T23:30:00.000Z", 1, "reps", 12, 0)
           /\ WithinBounds /\ ~ResponseWaits /\ ~UndoWaits
    \/ sendMessage("15 reps of push")
    \/ \E i \in 1..MaxMessages, k \in 1..3 : clickSuggestion(i, k)
    \/ assistantMutationFn /\ WithinBounds /\ ~UndoWaits
    \/ providerAttempt([kind |-> "intent",
                        intent |-> [UnknownIntent EXCEPT
                                       !.reply = "Which exercise do you mean?"]])
    \/ assistantChatReturns /\ WithinBounds
    \/ assistantMutationSucceeds
    \/ directLogMutationFn /\ WithinBounds /\ ~UndoWaits
    \/ directLogMutationSucceeds
    \/ \E i \in 1..MaxMessages : clickUndo(i)
    \/ undoSetMutationFn
    \/ undoSetMutationSucceeds

SpecUndo == Init /\ [][NextUndo]_vars

-----------------------------------------------------------------------------
(* Harness applying the pure day-key functions to drawn inputs *)

YearSamples == {0, 50, 99, 100, 1900, 2000, 2023, 2024, 9999}
MonthSamples == {1, 2, 3, 10, 12}
DaySamples == {1, 2, 3, 27, 28, 29, 30, 31}
TzYears == {2023, 2024, 2025}
MaxMonth == 13
MaxDay == 31
MaxDelta == 7
LongDeltas == {-366, -365, -31, 31, 365, 366}

\* the applications to perform: an operation, the date its day key is formatted from and
\* a number of days
DayInputs ==
    [op : {"formatParse"}, year : YearSamples, month : 1..MaxMonth, day : 1..MaxDay,
     days : {0}]
    \cup [op : {"addDays"}, year : YearSamples, month : MonthSamples, day : DaySamples,
          days : (-MaxDelta..MaxDelta) \cup LongDeltas]
    \cup [op : {"weekStart"}, year : YearSamples \cup TzYears, month : 1..12, day : 1..31,
          days : {0}]
    \cup [op : {"utcRange"}, year : TzYears, month : 1..12, day : 1..31, days : {0}]

DayInit ==
    /\ dkOp = "pending"
    /\ dkIn \in DayInputs
    /\ dkOut = InvalidSelectedDay
    /\ AppInit

\* the day key the operation is applied to
dkKey == formatDayKey(dkIn.year, dkIn.month, dkIn.day)

\* parseDayKey(formatDayKey(year, month, day))
FormatThenParse ==
    /\ dkOp = "pending"
    /\ dkIn.op = "formatParse"
    /\ dkOp' = "formatParse"
    /\ dkOut' = parseDayKey(dkKey)
    /\ UNCHANGED <<dkIn, chat, appVars>>

\* addDaysToDayKey(key, days), for a key the code accepts
AddDays ==
    /\ dkOp = "pending"
    /\ dkIn.op = "addDays"
    /\ parseDayKey(dkKey).ok
    /\ dkOp' = "addDays"
    /\ dkOut' = addDaysToDayKey(dkKey, dkIn.days)
    /\ UNCHANGED <<dkIn, chat, appVars>>

\* getWeekStartDayKey(key), for a key the code accepts
WeekStart ==
    /\ dkOp = "pending"
    /\ dkIn.op = "weekStart"
    /\ parseDayKey(dkKey).ok
    /\ dkOp' = "weekStart"
    /\ dkOut' = getWeekStartDayKey(dkKey)
    /\ UNCHANGED <<dkIn, chat, appVars>>

\* getUtcRangeForDayKey(key), for a key the code accepts
UtcRange ==
    /\ dkOp = "pending"
    /\ dkIn.op = "utcRange"
    /\ parseDayKey(dkKey).ok
    /\ dkOp' = "utcRange"
    /\ dkOut' = getUtcRangeForDayKey(dkKey)
    /\ UNCHANGED <<dkIn, chat, appVars>>

DayNext == FormatThenParse \/ AddDays \/ WeekStart \/ UtcRange

SpecDay == DayInit /\ [][DayNext]_vars

-----------------------------------------------------------------------------
(* Harness applying createLogTimestampForDayKey to drawn days and instants *)

\* the days around both offset changes of two years and days of June, at every hour
\* of the day, with new Date() on that day, on a winter day or on a summer day
StampInputs ==
    {i \in [op : {"logTimestamp"}, year : {2024, 2025}, month : {3, 6, 10},
            day : {26, 27, 30, 31}, days : {0}, hour : 0..23, minute : {0, 30, 59},
            fine : {0, 59999}, nowOn : {"that day", "winter", "summer"}] :
        parseDayKey(formatDayKey(i.year, i.month, i.day)).ok}

\* the instant new Date() returns
StampNow(i) ==
    IF i.nowOn = "that day"
    THEN DateUTC(i.year, i.month - 1, i.day, i.hour, i.minute, i.fine \div 1000, i.fine % 1000)
    ELSE DateUTC(2024, IF i.nowOn = "winter" THEN 0 ELSE 6, 15, i.hour, i.minute,
                 i.fine \div 1000, i.fine % 1000)

NoStamp == [stamp |-> NoInstant, range |-> [ok |-> FALSE, start |-> NoInstant, end |-> NoInstant]]

\* createLogTimestampForDayKey(key) next to getUtcRangeForDayKey(key)
LogTimestamp ==
    /\ dkOp = "pending"
    /\ dkIn.op = "logTimestamp"
    /\ dkOp' = "logTimestamp"
    /\ dkOut' = [stamp |-> createLogTimestampForDayKey(dkKey, StampNow(dkIn)),
                 range |-> getUtcRangeForDayKey(dkKey)]
    /\ UNCHANGED <<dkIn, chat, appVars>>

\* the function on drawn inputs, or the add-set calls of one user one after the other
\* while midnight passes
StampInit ==
    \/ /\ dkOp = "pending"
       /\ dkIn \in StampInputs
       /\ dkOut = NoStamp
       /\ AppInit
    \/ Init

StampNext ==
    \/ LogTimestamp
    \/ dkOp = "idle" /\ Tick
    \/ dkOp = "idle" /\ addWorkoutExerciseFn("u1", "2024-03-31", "Push Ups") /\ WithinBounds
    \/ \E d \in {"2024-03-31", "2024-03-30T23:30:00.000Z"}, reps \in {1, 12} :
           dkOp = "idle" /\ addWorkoutSetFn("u1", d, 1, "reps", reps, 0) /\ WithinBounds
    \/ \E value \in {1, 15} :
           /\ dkOp = "idle"
           /\ assistantLogDirectFn("u1", "push ups", "reps", value, "exercises")
           /\ WithinBounds

SpecStamp == StampInit /\ [][StampNext]_vars

-----------------------------------------------------------------------------
(* The sets a client sees and the ones it deletes *)

\* setToNumericValue(set), 0 for null
setToNumericValue(set) == IF set.type = "reps" THEN set.reps ELSE set.duration

\* the logs of the response of getWorkoutDayFn: the sets with a value of the entries
\* whose exercise is in the weekday's view, each under the id
\* `${exerciseIndex}:${setIndex}`
shownLogs(entries, exerciseIds) ==
    {[id |-> NumberToString(at[1] - 1) \o ":" \o NumberToString(at[2] - 1),
      exerciseId |-> entries[at[1]].exerciseId,
      set |-> entries[at[1]].sets[at[2]]] :
        at \in {<<e, k>> \in (1..Len(entries)) \X (1..MaxShown) :
                   /\ entries[e].exerciseId \in exerciseIds
                   /\ k <= Len(entries[e].sets)
                   /\ setToNumericValue(entries[e].sets[k]) # 0}}

\* the exercises of the weekday's view that exist
viewExerciseIds(weekViewsDb, exercisesDb, found) ==
    IF found = 0 THEN {}
    ELSE {weekViewsDb[found].exercises[i] : i \in 1..Len(weekViewsDb[found].exercises)}
             \cap (1..Len(exercisesDb))

\* getWorkoutDayFn as the client of the day view receives it: dkOut is the list of
\* logs the client shows until it reads again
getWorkoutDayLogs(userId, selectedDay) ==
    LET logsOf(found, exerciseIds) ==
            IF found = 0 THEN {}
            ELSE shownLogs(WorkoutLogModel[found].exercises, exerciseIds)
        handler(selected, weekday) ==
            /\ selected.ok
            /\ dkOut' = logsOf(findWorkoutLog(WorkoutLogModel, userId, weekday,
                                              getUtcRangeCached(selected.key)),
                               viewExerciseIds(WeekViewModel, ExerciseModel,
                                               findWeekView(WeekViewModel, userId, weekday)))
            /\ request' = dayRequest("getWorkoutDayFn", userId, selectedDay, selected, FALSE)
    IN  /\ Idle
        /\ handler(parseSelectedDayKeyCached(selectedDay),
                   getWeekdayCached(parseSelectedDayKeyCached(selectedDay).key))
        /\ UNCHANGED <<dkOp, dkIn, chat, clock, dbVars>>

\* ids that were issued for no set: a negative or too large index
UnissuedIds == {"0:-1", "-1:0", "0:5", "3:0"}

DayViewInit ==
    /\ dkOp = "day view"
    /\ dkIn = [op |-> "none", year |-> 0, month |-> 0, day |-> 0, days |-> 0]
    /\ dkOut = {}
    /\ AppInit

\* one user's day view: sets added, the list read, and sets deleted by the ids of
\* the list read last or by ids of no set
NextDayView ==
    \/ \E n \in {"Push Ups", "Squats "} :
           addWorkoutExerciseFn("u1", "2024-03-31", n) /\ Len(ExerciseModel') <= MaxExercises
    \/ \E id \in 1..MaxExercises, reps \in {11, 12} :
           /\ addWorkoutSetFn("u1", "2024-03-31", id, "reps", reps, 0)
           /\ totalSets(WorkoutLogModel') <= MaxShown
    \/ getWorkoutDayLogs("u1", "2024-03-31")
    \/ \E shown \in dkOut : removeWorkoutSetFn("u1", "2024-03-31", shown.id)
    \/ \E logId \in UnissuedIds : removeWorkoutSetFn("u1", "2024-03-31", logId)

SpecDayView == DayViewInit /\ [][NextDayView]_vars

-----------------------------------------------------------------------------
(* Add-set requests in flight at the same time *)

\* The add-set code of addWorkoutSetFn and of logAssistantSet awaits the database three
\* times: findOne, create when it found no log, and save. Each await is a step of
\* its own here, and the steps of two requests interleave. dkIn holds what each
\* request has in memory: the day, the document it found or created, the set it
\* pushes.
Requests == {"a", "b"}

NoCall == [pc |-> "idle", kind |-> "", day |-> "", found |-> 0, doc |-> <<>>, set |-> <<>>]

ConcurrentInit ==
    /\ dkOp = "concurrent"
    /\ dkIn = [r \in Requests |-> NoCall]
    /\ dkOut = InvalidSelectedDay
    /\ AppInit

\* the value a request logs: each request its own
ValueOf(r) == IF r = "a" THEN 11 ELSE 12

\* the set the request pushes to the document it holds
SetOf(r, kind, now) ==
    IF kind = "assistant"
    THEN <<assistantSet("reps", ValueOf(r), createLogTimestampCached(dkIn[r].day, now))>>
    ELSE manualSets("reps", ValueOf(r), 0)

\* the handler up to its findOne: addWorkoutSetFn for the selected day 2024-03-31, or
\* logAssistantSet for today with an exercise it matched
BeginAddSet(r, kind) ==
    /\ dkIn[r].pc = "idle"
    /\ kind = "assistant" =>
           matchedExercise(findExercises(ExerciseModel, "u1"), compactNameCached("push ups")) = 1
    /\ dkIn' = [dkIn EXCEPT ![r].pc = "find", ![r].kind = kind,
                            ![r].day = IF kind = "assistant" THEN dayKeyFromDateCached(Now)
                                       ELSE parseSelectedDayKeyCached("2024-03-31").key]
    /\ UNCHANGED <<dkOp, dkOut, chat, appVars>>

\* await WorkoutLogModel.findOne(...), and what follows without an await when a log
\* was found: the set is pushed to the document in memory
FindLog(r) ==
    LET read(found) ==
            [dkIn EXCEPT ![r].pc = IF found = 0 THEN "create" ELSE "save",
                         ![r].found = found,
                         ![r].doc = IF found = 0 THEN <<>> ELSE <<WorkoutLogModel[found]>>,
                         ![r].set = IF found = 0 THEN <<>> ELSE SetOf(r, dkIn[r].kind, Now)]
    IN  /\ dkIn[r].pc = "find"
        /\ dkIn' = read(findWorkoutLog(WorkoutLogModel, "u1", getWeekdayCached(dkIn[r].day),
                                       getUtcRangeCached(dkIn[r].day)))
        /\ UNCHANGED <<dkOp, dkOut, chat, appVars>>

\* the unique index { userId, date, weekday } holds a document with these values
IndexHolds(userId, date, weekday) ==
    \E i \in 1..Len(WorkoutLogModel) :
        /\ WorkoutLogModel[i].userId = userId
        /\ WorkoutLogModel[i].date = date
        /\ WorkoutLogModel[i].weekday = weekday

\* await WorkoutLogModel.create(...): it rejects on a duplicate key of the unique
\* index, and the handler with it
CreateLog(r) ==
    LET created(log) ==
            IF IndexHolds(log.userId, log.date, log.weekday)
            THEN /\ dkIn' = [dkIn EXCEPT ![r].pc = "failed"]
                 /\ UNCHANGED WorkoutLogModel
            ELSE /\ WorkoutLogModel' = Append(WorkoutLogModel, log)
                 /\ dkIn' = [dkIn EXCEPT ![r].pc = "save",
                                         ![r].found = Len(WorkoutLogModel) + 1,
                                         ![r].doc = <<log>>,
                                         ![r].set = SetOf(r, dkIn[r].kind, Now)]
    IN  /\ dkIn[r].pc = "create"
        /\ created([userId |-> "u1", date |-> createLogTimestampCached(dkIn[r].day, Now),
                    weekday |-> getWeekdayCached(dkIn[r].day), exercises |-> <<>>])
        /\ UNCHANGED <<dkOp, dkOut, chat, clock, ExerciseModel, WeekViewModel, request>>

\* await workoutLog.save() sends what changed in memory. A new entry is pushed to
\* exercises. A set pushed to the sets of entry k is pushed to that entry of the
\* stored document; when the stored document changed since it was read, the library's
\* version check may reject the save instead (rejects = TRUE)
SaveLog(r, rejects) ==
    LET saved(li, k) ==
            IF k = 0
            THEN /\ ~rejects
                 /\ WorkoutLogModel' =
                        [WorkoutLogModel EXCEPT
                            ![li].exercises = Append(@, [exerciseId |-> 1,
                                                         sets |-> dkIn[r].set])]
                 /\ dkIn' = [dkIn EXCEPT ![r].pc = "done"]
            ELSE IF rejects
            THEN /\ WorkoutLogModel[li] # dkIn[r].doc[1]
                 /\ dkIn' = [dkIn EXCEPT ![r].pc = "failed"]
                 /\ UNCHANGED WorkoutLogModel
            ELSE /\ WorkoutLogModel' =
                        [WorkoutLogModel EXCEPT ![li].exercises[k].sets = @ \o dkIn[r].set]
                 /\ dkIn' = [dkIn EXCEPT ![r].pc = "done"]
    IN  /\ dkIn[r].pc = "save"
        /\ saved(dkIn[r].found, findExerciseEntry(dkIn[r].doc[1].exercises, 1))
        /\ UNCHANGED <<dkOp, dkOut, chat, clock, ExerciseModel, WeekViewModel, request>>

ConcurrentNext ==
    \/ Tick
    \/ addWorkoutExerciseFn("u1", "2024-03-31", "Push Ups")
    \/ \E r \in Requests, kind \in {"manual", "assistant"} : BeginAddSet(r, kind)
    \/ \E r \in Requests : FindLog(r)
    \/ \E r \in Requests : CreateLog(r)
    \/ \E r \in Requests, rejects \in BOOLEAN : SaveLog(r, rejects)

SpecConcurrent == ConcurrentInit /\ [][ConcurrentNext]_vars

-----------------------------------------------------------------------------
(* Hold to record: the microphone button of the chat *)

\* The button's handlers, the 500 ms hold timer, the pending getUserMedia call, the
\* recorder's stop event and the 15 s timeout are steps of their own, and they
\* interleave. dkIn holds the refs and the state of the component: pressed is
\* the pointer being down, recorders lists every MediaRecorder created with the
\* tracks of its stream, mediaRecorder and mediaStream are the refs (0 is null),
\* recordingTimeouts the 15 s timeouts not yet fired or cleared.
MaxRecorders == 3

NoVoice ==
    [pressed |-> FALSE, holdStartTimeout |-> FALSE, holdSees |-> FALSE, pending |-> 0,
     hasRecordingStarted |-> FALSE, isListening |-> FALSE, recorders |-> <<>>,
     mediaRecorder |-> 0, mediaStream |-> 0, recordingTimeouts |-> {},
     recordingTimeout |-> 0]

VoiceInit ==
    /\ dkOp = "voice"
    /\ dkIn = NoVoice
    /\ dkOut = InvalidSelectedDay
    /\ AppInit

clearRecordingTimers(s) ==
    [s EXCEPT !.recordingTimeouts = @ \ {s.recordingTimeout}, !.recordingTimeout = 0]

stopListening(s) ==
    LET cleared == [s EXCEPT !.holdStartTimeout = FALSE]
        stopped(t) == [t EXCEPT !.recorders[t.mediaRecorder].state = "inactive"]
    IN  IF ~s.hasRecordingStarted
        THEN [cleared EXCEPT !.isListening = FALSE]
        ELSE IF s.mediaRecorder = 0
             THEN clearRecordingTimers([cleared EXCEPT !.hasRecordingStarted = FALSE,
                                                       !.isListening = FALSE])
             ELSE clearRecordingTimers(
                      [(IF s.recorders[s.mediaRecorder].state # "inactive"
                        THEN stopped(cleared) ELSE cleared)
                       EXCEPT !.hasRecordingStarted = FALSE, !.isListening = FALSE])

\* the timer's callback is the startListening of the render of the pointer-down: the
\* isListening it reads is the one of that render
onPointerDown ==
    /\ ~dkIn.pressed
    /\ Len(dkIn.recorders) + dkIn.pending < MaxRecorders
    /\ dkIn' = [dkIn EXCEPT !.pressed = TRUE, !.holdStartTimeout = TRUE,
                            !.holdSees = dkIn.isListening]
    /\ UNCHANGED <<dkOp, dkOut, chat, appVars>>

\* onPointerUp and onPointerCancel
onPointerUp ==
    /\ dkIn.pressed
    /\ dkIn' = stopListening([dkIn EXCEPT !.pressed = FALSE])
    /\ UNCHANGED <<dkOp, dkOut, chat, appVars>>

\* the hold timer fires: startListening up to its await of getUserMedia
startListening ==
    /\ dkIn.holdStartTimeout
    /\ dkIn' = IF dkIn.holdSees \/ dkIn.mediaRecorder # 0
               THEN [dkIn EXCEPT !.holdStartTimeout = FALSE]
               ELSE [dkIn EXCEPT !.holdStartTimeout = FALSE, !.pending = @ + 1]
    /\ UNCHANGED <<dkOp, dkOut, chat, appVars>>

\* getUserMedia resolves: the rest of startListening's try block
getUserMediaResolves ==
    LET n == Len(dkIn.recorders) + 1
    IN  /\ dkIn.pending > 0
        /\ dkIn' = [dkIn EXCEPT !.pending = @ - 1,
                                !.recorders = Append(@, [state |-> "recording", tracks |-> TRUE]),
                                !.mediaStream = n, !.mediaRecorder = n,
                                !.hasRecordingStarted = TRUE, !.isListening = TRUE,
                                !.recordingTimeouts = @ \cup {n}, !.recordingTimeout = n]
        /\ UNCHANGED <<dkOp, dkOut, chat, appVars>>

\* getUserMedia rejects: startListening's catch
getUserMediaRejects ==
    /\ dkIn.pending > 0
    /\ dkIn' = [dkIn EXCEPT !.pending = @ - 1]
    /\ UNCHANGED <<dkOp, dkOut, chat, appVars>>

\* the stop event of a recorder that was stopped
recorderOnStop(r) ==
    LET s == clearRecordingTimers([dkIn EXCEPT !.recorders[r].state = "closed",
                                               !.mediaRecorder = 0, !.isListening = FALSE])
    IN  /\ dkIn.recorders[r].state = "inactive"
        /\ dkIn' = IF s.mediaStream # 0
                   THEN [s EXCEPT !.recorders[s.mediaStream].tracks = FALSE, !.mediaStream = 0]
                   ELSE s
        /\ UNCHANGED <<dkOp, dkOut, chat, appVars>>

\* a 15 s timeout fires
recordingTimeoutFires(t) ==
    /\ t \in dkIn.recordingTimeouts
    /\ dkIn' = stopListening([dkIn EXCEPT !.recordingTimeouts = @ \ {t}])
    /\ UNCHANGED <<dkOp, dkOut, chat, appVars>>

VoiceNext ==
    \/ onPointerDown
    \/ onPointerUp
    \/ startListening
    \/ getUserMediaResolves
    \/ getUserMediaRejects
    \/ \E r \in 1..MaxRecorders : r <= Len(dkIn.recorders) /\ recorderOnStop(r)
    \/ \E t \in 1..MaxRecorders : recordingTimeoutFires(t)

SpecVoice == VoiceInit /\ [][VoiceNext]_vars

-----------------------------------------------------------------------------
(* transcribeWithGoogleLive: the promise around the websocket *)

RECURSIVE Repeated(_, _)
Repeated(s, n) ==
    IF n = 0 THEN ""
    ELSE LET half == Repeated(s, n \div 2)
         IN  IF n % 2 = 0 THEN half \o half ELSE half \o half \o s

startsWith(s, prefix) == Len(s) >= Len(prefix) /\ SubSeq(s, 1, Len(prefix)) = prefix
endsWith(s, suffix) ==
    Len(s) >= Len(suffix) /\ SubSeq(s, Len(s) - Len(suffix) + 1, Len(s)) = suffix

\* the three backquotes of a code fence: a string of the model cannot hold a
\* backquote, so the fence is written with tildes
Fence == "~~~"

\* rawText.replace(/^```(?:json)?\s*/i, '').replace(/\s*```$/i, '').trim()
withoutFence(rawText) ==
    LET fence == Fence
        opened == IF startsWith(rawText, fence)
                  THEN LET rest == SubSeq(rawText, 4, Len(rawText))
                       IN  trimStart(IF Len(rest) >= 4 /\ toLowerCase(SubSeq(rest, 1, 4)) = "json"
                                     THEN SubSeq(rest, 5, Len(rest)) ELSE rest)
                  ELSE rawText
        closed == IF endsWith(opened, fence)
                  THEN trimEnd(SubSeq(opened, 1, Len(opened) - 3))
                  ELSE opened
    IN  trim(closed)

\* JSON.parse for the texts the model draws: an object with the one key transcript
\* and a string without escapes, or a number; it throws for every other text
JSONparse(text) ==
    LET key == "{\"transcript\":"
        rest == trimStart(SubSeq(text, Len(key) + 1, Len(text)))
        inner == SubSeq(rest, 2, Len(rest) - 2)
    IN  IF startsWith(text, key) /\ Len(rest) >= 3 /\ startsWith(rest, "\"")
           /\ endsWith(rest, "\"}") /\ ~includes(inner, "\"")
        THEN [threw |-> FALSE, isString |-> TRUE, transcript |-> inner]
        ELSE IF Len(text) > 0 /\ \A i \in 1..Len(text) : IsDigit(CharAt(text, i))
             THEN [threw |-> FALSE, isString |-> FALSE, transcript |-> ""]
             ELSE [threw |-> TRUE, isString |-> FALSE, transcript |-> ""]

\* trimmed.match(/\{[\s\S]*"transcript"\s*:\s*"([\s\S]*?)"[\s\S]*\}/i)?.[1], "" when
\* there is no match: the last key with an opening quote after it, a brace before it
\* and a closing quote and a brace behind it; the group ends at the first quote
matchTranscript(text) ==
    LET key == "\"transcript\""
        \* the position of the opening quote of the value of the key at k, 0 if none
        valueAt(k) ==
            LET afterKey == trimStart(SubSeq(text, k + Len(key), Len(text)))
                afterColon == trimStart(SubSeq(afterKey, 2, Len(afterKey)))
            IN  IF startsWith(afterKey, ":") /\ startsWith(afterColon, "\"")
                THEN Len(text) - Len(afterColon) + 1 ELSE 0
        group(q) ==
            LET tail == SubSeq(text, q + 1, Len(text))
                end == IndexOfChar("\"", tail)
            IN  IF end > 0 /\ IndexOfChar("}", SubSeq(tail, end + 1, Len(tail))) > 0
                THEN [ok |-> TRUE, text |-> SubSeq(tail, 1, end - 1)]
                ELSE [ok |-> FALSE, text |-> ""]
        keys == {k \in 1..Len(text) :
                    /\ k + Len(key) - 1 <= Len(text)
                    /\ toLowerCase(SubSeq(text, k, k + Len(key) - 1)) = key
                    /\ IndexOfChar("{", SubSeq(text, 1, k - 1)) > 0
                    /\ valueAt(k) > 0
                    /\ group(valueAt(k)).ok}
    IN  IF keys = {} THEN ""
        ELSE group(valueAt(CHOOSE k \in keys : \A other \in keys : other <= k)).text

extractTranscriptCandidate(rawText) ==
    LET trimmed == withoutFence(rawText)
        parsed == JSONparse(trimmed)
    IN  IF trimmed = "" THEN ""
        ELSE IF ~parsed.threw
             THEN IF parsed.isString THEN trim(parsed.transcript) ELSE trimmed
             ELSE IF matchTranscript(trimmed) # ""
                  THEN trim(matchTranscript(trimmed))
                  ELSE trimmed

blockedPatterns ==
    {"transcribe this audio", "return only the transcript", "cannot transcribe audio",
     "unable to process audio", "audio files"}

isGuardrailViolation(value) ==
    \E pattern \in blockedPatterns :
        \E i \in 1..(Len(value) - Len(pattern) + 1) :
            toLowerCase(SubSeq(value, i, i + Len(pattern) - 1)) = pattern

MaxTranscript == 260

\* the texts a message of the service carries
RawCandidates ==
    {"  15 push ups ",
     Fence \o "json {\"transcript\": \" ten squats \"} " \o Fence,
     "heard {\"transcript\": \"twelve lunges now\"} ok",
     "I cannot transcribe audio",
     "{\"transcript\": \"  \"}",
     "   ",
     Repeated("a", MaxTranscript),
     Repeated("a", MaxTranscript + 1)}

extractTranscriptCandidateTable ==
    [rawText \in RawCandidates |-> extractTranscriptCandidate(rawText)]

isGuardrailViolationTable ==
    [value \in {extractTranscriptCandidateTable[r] : r \in RawCandidates} |->
        isGuardrailViolation(value)]

\* splitBase64IntoChunks(audioBase64): the lengths of the chunks of a payload of the
\* given length
RECURSIVE splitBase64IntoChunks(_, _)
splitBase64IntoChunks(length, chunkSize) ==
    LET normalizedChunkSize == IF chunkSize - (chunkSize % 4) > 4
                               THEN chunkSize - (chunkSize % 4) ELSE 4
    IN  IF length <= 0 THEN <<>>
        ELSE IF length <= normalizedChunkSize THEN <<length>>
             ELSE <<normalizedChunkSize>>
                      \o splitBase64IntoChunks(length - normalizedChunkSize, chunkSize)

ChunkSize == 24000
AudioLengths == {0, 24000, 30000}

\* the messages of the service: event.data that is no string, a string that is no
\* JSON, and the payloads the handler reads fields of
NoMessage ==
    [data |-> "json", setupComplete |-> FALSE, error |-> FALSE, parts |-> <<>>,
     direct |-> <<>>, turnComplete |-> FALSE, inputFinished |-> FALSE]

LiveMessages ==
    {[NoMessage EXCEPT !.data = "binary"], [NoMessage EXCEPT !.data = "text"],
     [NoMessage EXCEPT !.setupComplete = TRUE], [NoMessage EXCEPT !.error = TRUE],
     [NoMessage EXCEPT !.turnComplete = TRUE],
     [NoMessage EXCEPT !.direct = <<"   ", "  15 push ups ">>, !.inputFinished = TRUE]}
    \cup {[NoMessage EXCEPT !.parts = <<rawText>>, !.turnComplete = done] :
             rawText \in RawCandidates, done \in BOOLEAN}

MaxLiveMessages == 3

\* the state the executor of the promise leaves: the socket connecting, the timeout
\* armed. settled counts the calls of resolve and reject.
NoLive ==
    [audio |-> 0, socket |-> "connecting", sent |-> <<>>, transcript |-> "",
     isSettled |-> FALSE, messageCount |-> 0, isSetupComplete |-> FALSE,
     timeout |-> TRUE, promise |-> "pending", value |-> "", settled |-> 0]

LiveInit ==
    /\ dkOp = "live"
    /\ \E audio \in AudioLengths : dkIn = [NoLive EXCEPT !.audio = audio]
    /\ dkOut = InvalidSelectedDay
    /\ AppInit

\* websocket.close()
close(s) ==
    IF s.socket \in {"connecting", "open"} THEN [s EXCEPT !.socket = "closing"] ELSE s

\* resolve or reject of the promise: only the first call settles it
settle(s, outcome, value) ==
    IF s.promise = "pending"
    THEN [s EXCEPT !.promise = outcome, !.value = value, !.settled = @ + 1]
    ELSE [s EXCEPT !.settled = @ + 1]

finalizeSuccess(s, value) ==
    IF s.isSettled THEN s
    ELSE settle(close([s EXCEPT !.isSettled = TRUE]), "resolved", value)

finalizeFailureAgain(s, error) ==
    settle(close([s EXCEPT !.isSettled = TRUE]), "rejected", error)

finalizeFailure(s, error) ==
    IF s.isSettled THEN s
    ELSE settle(close([s EXCEPT !.isSettled = TRUE]), "rejected", error)

\* the callback of setTimeout
timeoutFires ==
    /\ dkIn.timeout
    /\ dkIn' = LET s == [dkIn EXCEPT !.timeout = FALSE]
               IN  IF trim(s.transcript) # ""
                   THEN finalizeSuccess(s, trim(s.transcript))
                   ELSE finalizeFailure(s, "Live API transcription timed out")
    /\ UNCHANGED <<dkOp, dkOut, chat, appVars>>

\* the listener of 'open'
onOpen ==
    /\ dkIn.socket = "connecting"
    /\ dkIn' = [dkIn EXCEPT !.socket = "open", !.sent = Append(@, "setup")]
    /\ UNCHANGED <<dkOp, dkOut, chat, appVars>>

getLiveTranscriptCandidates(payload) ==
    payload.parts \o SelectSeq(payload.direct, LAMBDA entry : trim(entry) # "")

\* candidates.forEach of the listener of 'message'
RECURSIVE longestCandidate(_, _)
longestCandidate(transcript, candidates) ==
    IF candidates = <<>> THEN transcript
    ELSE LET candidate == extractTranscriptCandidateTable[Head(candidates)]
         IN  longestCandidate(
                 IF /\ candidate # ""
                    /\ ~isGuardrailViolationTable[candidate]
                    /\ Len(candidate) <= MaxTranscript
                    /\ Len(candidate) > Len(transcript)
                 THEN candidate ELSE transcript,
                 Tail(candidates))

\* the listener of 'message'
onMessage(parsed) ==
    LET counted == [dkIn EXCEPT !.messageCount = @ + 1]
        chunks == splitBase64IntoChunks(dkIn.audio, ChunkSize)
        heard == [counted EXCEPT
                     !.transcript = longestCandidate(@, getLiveTranscriptCandidates(parsed))]
    IN  /\ dkIn.socket \in {"open", "closing"}
        /\ dkIn.messageCount < MaxLiveMessages
        /\ dkIn' =
              IF parsed.data # "json" THEN counted
              ELSE IF parsed.setupComplete /\ ~dkIn.isSetupComplete
                   THEN [counted EXCEPT
                            !.isSetupComplete = TRUE,
                            !.sent = @ \o [i \in 1..Len(chunks) |-> "mediaChunks"]
                                       \o <<"audioStreamEnd">>]
              ELSE IF parsed.error
                   THEN finalizeFailure([counted EXCEPT !.timeout = FALSE],
                                        "Live API returned error")
              ELSE IF (parsed.inputFinished \/ parsed.turnComplete)
                      /\ trim(heard.transcript) # ""
                   THEN finalizeSuccess([heard EXCEPT !.timeout = FALSE],
                                        trim(heard.transcript))
                   ELSE heard
        /\ UNCHANGED <<dkOp, dkOut, chat, appVars>>

\* the listener of 'error'
onError ==
    /\ dkIn.socket # "closed"
    /\ dkIn' = finalizeFailure([dkIn EXCEPT !.timeout = FALSE], "Live API websocket error")
    /\ UNCHANGED <<dkOp, dkOut, chat, appVars>>

\* the listener of 'close'
onClose ==
    /\ dkIn.socket # "closed"
    /\ dkIn' = LET s == [dkIn EXCEPT !.socket = "closed", !.timeout = FALSE]
               IN  IF s.isSettled THEN s
                   ELSE IF trim(s.transcript) # ""
                        THEN finalizeSuccess(s, trim(s.transcript))
                        ELSE finalizeFailure(
                                 s, "Live API connection closed before transcript")
    /\ UNCHANGED <<dkOp, dkOut, chat, appVars>>

LiveNext ==
    \/ timeoutFires
    \/ onOpen
    \/ \E parsed \in LiveMessages : onMessage(parsed)
    \/ onError
    \/ onClose

\* a timeout that is armed fires: nothing but clearTimeout keeps the callback of
\* setTimeout from running
SpecLive == LiveInit /\ [][LiveNext]_vars /\ WF_vars(timeoutFires)

-----------------------------------------------------------------------------
(* Harness applying the matcher and buildSuggestions to drawn inputs *)

\* exercise lists of a user, in the order the query returns them
MatchLists ==
    {<<>>, <<"Squats">>, <<"Push Ups", "Squats">>, <<"Squats", "---">>,
     <<"Press", "Leg Press", "Bench Press">>,
     <<"Leg Press", "Press", "Incline Bench Press", "Bench Press">>,
     <<"Close Grip Bench Press", "Incline Bench Press", "Bench Press", "Leg Press">>}

MatchInputs ==
    [op : {"score"}, input : MatchQueries, exerciseName : MatchNames,
     exerciseNames : {<<>>}, setType : {"reps"}, value : {1}]
    \cup [op : {"suggest"}, input : MatchQueries, exerciseName : {""},
          exerciseNames : MatchLists, setType : {"reps", "timed"}, value : {1, 15, NaN}]

NoMatchOutput == [score |-> 0, suggestions |-> <<>>]

MatchInit ==
    /\ dkOp = "pending"
    /\ dkIn \in MatchInputs
    /\ dkOut = NoMatchOutput
    /\ AppInit

\* getExerciseScore(input, exerciseName)
Score ==
    /\ dkOp = "pending"
    /\ dkIn.op = "score"
    /\ dkOp' = "score"
    /\ dkOut' = [NoMatchOutput EXCEPT
                    !.score = getExerciseScoreCached(dkIn.input, dkIn.exerciseName)]
    /\ UNCHANGED <<dkIn, chat, appVars>>

\* buildSuggestions({exerciseNames, exerciseName: input, setType, value})
Suggest ==
    /\ dkOp = "pending"
    /\ dkIn.op = "suggest"
    /\ dkOp' = "suggest"
    /\ dkOut' = [NoMatchOutput EXCEPT
                    !.suggestions = buildSuggestions(dkIn.exerciseNames, dkIn.input,
                                                     dkIn.setType, dkIn.value)]
    /\ UNCHANGED <<dkIn, chat, appVars>>

MatchNext == Score \/ Suggest

SpecMatch == MatchInit /\ [][MatchNext]_vars

-----------------------------------------------------------------------------
(* Claims *)

IsLeapYear(y) == (y % 4 = 0 /\ y % 100 # 0) \/ y % 400 = 0

DaysInMonth(y, m) ==
    IF m = 2 THEN (IF IsLeapYear(y) THEN 29 ELSE 28)
    ELSE IF m \in {4, 6, 9, 11} THEN 30 ELSE 31

\* (y, m, d) is a date of the proleptic Gregorian calendar
IsValidCivil(y, m, d) == m \in 1..12 /\ d \in 1..DaysInMonth(y, m)

\* C1: for every valid triple with a year 0000..9999, parseDayKey(formatDayKey(y, m, d))
\* returns the same year, month and day; for every invalid triple parseDayKey fails.
C1_RoundTrip ==
    dkOp = "formatParse" =>
        IF IsValidCivil(dkIn.year, dkIn.month, dkIn.day)
        THEN /\ dkOut.ok
             /\ dkOut.year = dkIn.year
             /\ dkOut.month = dkIn.month
             /\ dkOut.day = dkIn.day
        ELSE ~dkOut.ok


\* the round trip restricted to the years Date.UTC takes literally
RoundTripFromYear100 ==
    (dkOp = "formatParse" /\ dkIn.year >= 100) =>
        IF IsValidCivil(dkIn.year, dkIn.month, dkIn.day)
        THEN dkOut.ok /\ dkOut.year = dkIn.year /\ dkOut.month = dkIn.month
                /\ dkOut.day = dkIn.day
        ELSE ~dkOut.ok

\* the day number of the civil date a well-formed key names, read off its digits
DayNumberOfKey(k) ==
    DaysFromCivil(DigitsToNumber(SubSeq(k, 1, 4)), DigitsToNumber(SubSeq(k, 6, 7)),
                  DigitsToNumber(SubSeq(k, 9, 10)))

\* C2: for every valid DayKey k and every integer n, addDaysToDayKey(k, n) is a DayKey
\* that parseDayKey accepts and addDaysToDayKey(addDaysToDayKey(k, n), -n) returns k.
C2_AddDaysInverse ==
    dkOp = "addDays" =>
        /\ dkOut.ok
        /\ parseDayKey(dkOut.key).ok
        /\ addDaysToDayKey(dkOut.key, -dkIn.days) = [ok |-> TRUE, key |-> dkKey]

\* C3: for every valid DayKey k, getWeekStartDayKey(k) is a Monday at most 6 days
\* before k, and getWeekStartDayKey(addDaysToDayKey(getWeekStartDayKey(k), d)) equals
\* getWeekStartDayKey(k) for every d in 0..6.
C3_WeekStartMonday ==
    dkOp = "weekStart" =>
        /\ dkOut.ok
        /\ SelectedDayKeyRegexTest(dkOut.key)
        /\ getUTCDay(DayNumberOfKey(dkOut.key)) = 1
        /\ DayNumberOfKey(dkKey) - DayNumberOfKey(dkOut.key) \in 0..6
        /\ \A d \in 0..6 :
               LET moved == addDaysToDayKey(dkOut.key, d)
               IN  moved.ok /\ getWeekStartDayKey(moved.key) = dkOut

\* the closed range [start, end] counted in milliseconds
RangeDurationMs(r) == InstantDiffMs(r.end, r.start) + 1

\* the zone's offset differs between noon UTC of the day before and noon UTC of the day
IsOffsetChangeDay(k) ==
    LET z == DayNumberOfKey(k)
    IN  BerlinOffsetMs([d |-> z - 1, ms |-> 12 * MsPerHour])
            # BerlinOffsetMs([d |-> z, ms |-> 12 * MsPerHour])

\* the civil date and time of day the zone shows at an instant
LocalFields(t) ==
    LET local == InstantPlusMs(t, BerlinOffsetMs(t))
    IN  [date |-> CivilFromDays(local.d), ms |-> local.ms]

C4_Witness23 ==
    /\ dkOp = "utcRange"
    /\ IsOffsetChangeDay(dkKey)
    /\ RangeDurationMs(dkOut) = 23 * MsPerHour

\* each modelled year has exactly two days on which the offset changes
TwoChangeDaysPerYear ==
    \A y \in TzYears :
        Cardinality({md \in (1..12) \X (1..31) :
                        /\ IsValidCivil(y, md[1], md[2])
                        /\ IsOffsetChangeDay(formatDayKey(y, md[1], md[2]))}) = 2

-----------------------------------------------------------------------------
(* Claims about the handlers *)

DayHandlers ==
    {"getWorkoutDayFn", "addWorkoutExerciseFn", "removeWorkoutExerciseFn",
     "addWorkoutSetFn", "removeWorkoutSetFn"}


AllLogs == 1..Len(WorkoutLogModel)

\* the day of Europe/Berlin an instant falls on
BerlinDayOf(date) == dayKeyFromDateInTimeZone(date)

\* a log is found by the query of both paths for the day its date falls on
FoundOnItsDay(log) ==
    logMatches(log, log.userId, getWeekdayFromDayKey(BerlinDayOf(log.date)).weekday,
               getUtcRangeForDayKey(BerlinDayOf(log.date)))

\* the sets of a log, in the order of its entries
RECURSIVE FlatSets(_, _)
FlatSets(entries, k) ==
    IF k > Len(entries) THEN <<>> ELSE entries[k].sets \o FlatSets(entries, k + 1)

IsAssistantSet(set) == set.loggedAt # NoInstant

\* C5: a set logged manually with selectedDay = D and a set logged by the assistant
\* on the day D of Europe/Berlin go to the same WorkoutLog document: every log is
\* found by the query (user, weekday, day range) of the day its date falls on, so
\* the path that runs second finds it, and a user never has two logs for one day.
C5_SameDocument ==
    /\ \A i \in AllLogs : FoundOnItsDay(WorkoutLogModel[i])
    /\ \A i, j \in AllLogs :
           (i < j /\ WorkoutLogModel[i].userId = WorkoutLogModel[j].userId)
               => BerlinDayOf(WorkoutLogModel[i].date) # BerlinDayOf(WorkoutLogModel[j].date)

\* the assistant ran second on 2024-03-31 and extended the log a manual set created
C5_Witness ==
    /\ request.handler = "assistantLogDirectFn"
    /\ request.resp.didLogSet
    /\ request.dayKey = "2024-03-31"
    /\ Len(WorkoutLogModel) = 1
    /\ Len(FlatSets(WorkoutLogModel[1].exercises, 1)) = 2
    /\ ~IsAssistantSet(FlatSets(WorkoutLogModel[1].exercises, 1)[1])
    /\ IsAssistantSet(FlatSets(WorkoutLogModel[1].exercises, 1)[2])

\* the manual path ran second and extended the log the assistant created
C5_WitnessManualSecond ==
    /\ request.handler = "addWorkoutSetFn"
    /\ request.wrote
    /\ Len(WorkoutLogModel) = 1
    /\ Len(FlatSets(WorkoutLogModel[1].exercises, 1)) = 2
    /\ IsAssistantSet(FlatSets(WorkoutLogModel[1].exercises, 1)[1])
    /\ ~IsAssistantSet(FlatSets(WorkoutLogModel[1].exercises, 1)[2])

\* value is a well-formed YYYY-MM-DD key that names a real calendar date
IsRealDayKey(value) ==
    /\ SelectedDayKeyRegexTest(value)
    /\ IsValidCivil(DigitsToNumber(SubSeq(value, 1, 4)), DigitsToNumber(SubSeq(value, 6, 7)),
                    DigitsToNumber(SubSeq(value, 9, 10)))

\* C6: every handler that takes a selectedDay fails with the invalid-day error and
\* writes nothing when the string is not a well-formed key of a real calendar date;
\* no malformed string is mapped to a day.
C6_MalformedDayRejected ==
    (request.handler \in DayHandlers /\ ~IsRealDayKey(request.selectedDay)) =>
        /\ request.outcome = "Invalid selected day"
        /\ request.dayKey = ""
        /\ ~request.wrote

\* what does hold: a well-formed key of no real date and a string Date cannot
\* parse are rejected before anything is written
MalformedKeyRejected ==
    (request.handler \in DayHandlers
        /\ ~IsRealDayKey(request.selectedDay)
        /\ (SelectedDayKeyRegexTest(request.selectedDay) \/ ~DateParse(request.selectedDay).ok))
    => (request.outcome = "Invalid selected day" /\ ~request.wrote)

-----------------------------------------------------------------------------
(* Claims about the assistant *)

AssistantReturned == request.handler \in AssistantHandlers /\ request.pc = "done"

\* the sets the assistant committed to the logs of a user, with their exercise ids
AssistantSetIds(userId) ==
    {WorkoutLogModel[i].exercises[k].exerciseId :
        <<i, k>> \in {<<i, k>> \in AllLogs \X (1..MaxSets) :
                        /\ WorkoutLogModel[i].userId = userId
                        /\ k <= Len(WorkoutLogModel[i].exercises)
                        /\ \E n \in 1..Len(WorkoutLogModel[i].exercises[k].sets) :
                               IsAssistantSet(WorkoutLogModel[i].exercises[k].sets[n])}}

SuggestedNames(resp) == {resp.suggestions[n].exerciseName : n \in 1..Len(resp.suggestions)}

ListedNames(exercises) == {exercises[k].name : k \in 1..Len(exercises)}

\* the step is a step of one of the assistant's handlers
AssistantStep == request' # request /\ request'.handler \in AssistantHandlers

\* C7: the assistant never stores or offers an exercise that is not in the user's
\* list: every set it committed references the id of an exercise document of that
\* user, the exercises a request works with are documents of its user, every
\* suggestion's exerciseName is one of their names verbatim, and no step of the
\* assistant changes the exercise collection.
C7_OnlyKnownExercises ==
    /\ [](\A u \in Users : AssistantSetIds(u) \subseteq exerciseIdsOf(ExerciseModel, u))
    /\ [](request.handler \in AssistantHandlers =>
            /\ \A k \in 1..Len(request.exercises) :
                   request.exercises[k].id \in exerciseIdsOf(ExerciseModel, request.userId)
            /\ SuggestedNames(request.resp) \subseteq ListedNames(request.exercises))
    /\ [][AssistantStep => ExerciseModel' = ExerciseModel]_vars

\* the assistant committed a set for u1 and then offered suggestions, while
\* another user has an exercise of the name it matched
C7_Witness ==
    /\ AssistantReturned
    /\ request.resp.suggestions # <<>>
    /\ AssistantSetIds("u1") # {}
    /\ \E i \in 1..Len(ExerciseModel) :
           ExerciseModel[i].userId = "u2" /\ ExerciseModel[i].name = "Push Ups"

\* the exercises of the request that the resolved name identifies: those whose
\* normalized name is the resolved name's, compared as logAssistantSet compares
\* them, spaces removed
IdentifiedExercises(req) ==
    {k \in 1..Len(req.exercises) :
        compactName(req.exercises[k].name) = compactName(req.exerciseName)}

\* C8: the assistant commits a set only when the resolved name identifies exactly
\* one known exercise; with several exercises of the same normalized name, such
\* as "Push Ups" and "Push-Ups", it commits nothing.
C8_CommitsOnlyUniqueMatch ==
    (AssistantReturned /\ request.resp.didLogSet)
        => Cardinality(IdentifiedExercises(request)) = 1

\* what does hold: a committed set goes to the first exercise of the list whose
\* normalized name, spaces removed, is the resolved name's
CommitsFirstCompactMatch ==
    (AssistantReturned /\ request.resp.didLogSet) =>
        /\ request.wrote
        /\ \E k \in 1..Len(request.exercises) :
               /\ compactName(request.exercises[k].name) = compactName(request.exerciseName)
               /\ \A j \in 1..(k - 1) :
                      compactName(request.exercises[j].name) # compactName(request.exerciseName)
               /\ request.resp.undo[1].logId.exerciseId = request.exercises[k].id

FailureKinds == {"http error", "thrown error", "unparsable answer"}

AttemptsOf(req) == 1..Len(req.attempts)

\* C9: the models are attempted one after another in the order of the list, model
\* i+1 only after model i failed (HTTP error, thrown error or unparsable answer),
\* no model twice within a request, and none after the first parsable intent.
C9_AttemptsInOrder ==
    request.handler = "assistantChatFn" =>
        /\ Len(request.attempts) <= Len(orderedModels(request.provider))
        /\ \A i \in AttemptsOf(request) :
               request.attempts[i].model = orderedModels(request.provider)[i]
        /\ \A i, j \in AttemptsOf(request) :
               i < j => request.attempts[i].model # request.attempts[j].model
        /\ \A i \in AttemptsOf(request) :
               i < Len(request.attempts) => request.attempts[i].outcome \in FailureKinds
        /\ (request.intent # <<>> =>
               request.attempts[Len(request.attempts)].outcome = "intent")

\* the third model answered with an intent after the first two failed in different ways
C9_Witness ==
    /\ request.handler = "assistantChatFn"
    /\ request.pc = "done"
    /\ Len(request.attempts) = 3
    /\ request.attempts[1].outcome = "http error"
    /\ request.attempts[2].outcome = "unparsable answer"
    /\ request.attempts[3].outcome = "intent"

ChatReturned == request.handler = "assistantChatFn" /\ request.pc = "done"

\* every model of the list was attempted and failed
EveryModelFailed(req) ==
    /\ Len(req.attempts) = Len(orderedModels(req.provider))
    /\ \A i \in AttemptsOf(req) : req.attempts[i].outcome \in FailureKinds

\* callProviderForIntent was called and returned without attempting a model
NoKeyNoAttempt(req) == ~req.hasKey /\ req.attempts = <<>> /\ req.provider # ""

AllFailedReported == ChatReturned /\ request.resp.reply = AllModelsFailedReply

\* when every model failed the reply is the "all models failed" one, nothing was
\* logged or written and no suggestion is offered; an answer after a model
\* returned an intent never carries that reply
AllFailedReply ==
    /\ (ChatReturned /\ EveryModelFailed(request)) => AllFailedReported
    /\ AllFailedReported =>
           /\ ~request.resp.didLogSet
           /\ request.resp.suggestions = <<>>
           /\ request.resp.undo = <<>>
           /\ ~request.wrote
    /\ (ChatReturned /\ request.intent # <<>>) => ~AllFailedReported

\* C10 as stated: when every model of the list fails, assistantChatFn returns the
\* "all models failed" reply with didLogSet = false, no suggestions and nothing
\* written; the reply is given only when every listed model was attempted and
\* failed, and it differs from the answer to an unknown intent.
C10_AllFailedOnlyAfterEveryAttempt ==
    /\ AllFailedReply
    /\ AllFailedReported => EveryModelFailed(request)

\* C10, amended: the reply is given only when every listed model was attempted
\* and failed or when the provider's API key is not set, in which case no model
\* is attempted.
C10_AllFailedOrNoKey ==
    /\ AllFailedReply
    /\ AllFailedReported => (EveryModelFailed(request) \/ NoKeyNoAttempt(request))

\* the three models of the list failed, each in another way, and the reply says so
C10_Witness ==
    /\ AllFailedReported
    /\ Len(request.attempts) = 3
    /\ {request.attempts[i].outcome : i \in 1..3} = FailureKinds

\* the reply is given although no model was attempted
C10_WitnessNoKey == AllFailedReported /\ NoKeyNoAttempt(request)


-----------------------------------------------------------------------------
(* The values of stored sets *)

\* every set of every entry of every stored log
StoredSets ==
    {[log |-> l, entry |-> e, set |-> k] :
        l \in AllLogs, e \in 1..MaxExercises, k \in 1..MaxSets}

StoredSetAt(at) == WorkoutLogModel[at.log].exercises[at.entry].sets[at.set]

IsStored(at) ==
    /\ at.entry <= Len(WorkoutLogModel[at.log].exercises)
    /\ at.set <= Len(WorkoutLogModel[at.log].exercises[at.entry].sets)

\* the set holds the value of its type, an integer of at least 1, and no other value
HoldsItsValue(set) ==
    /\ set.type = "reps" => set.reps >= 1 /\ set.duration = 0
    /\ set.type = "timed" => set.duration >= 1 /\ set.reps = 0

\* C11: every set in storage holds a value that is an integer of at least 1: a set of
\* type reps holds reps >= 1, a set of type timed holds duration >= 1, whichever path
\* (manual or assistant) stored it.
C11_StoredValuesAtLeastOne ==
    \A at \in StoredSets : IsStored(at) => HoldsItsValue(StoredSetAt(at))

\* what holds of the code: a value that is stored is at least 1, and a set without a
\* value is one the assistant stored
C11_PresentValuesAtLeastOne ==
    \A at \in StoredSets :
        IsStored(at) =>
            \/ HoldsItsValue(StoredSetAt(at))
            \/ /\ IsAssistantSet(StoredSetAt(at))
               /\ StoredSetAt(at).reps = 0
               /\ StoredSetAt(at).duration = 0

\* the assistant answered that it logged a set
C11_AssistantLogged ==
    /\ request.handler = "assistantChatFn"
    /\ request.outcome = "returned"
    /\ request.resp.didLogSet

-----------------------------------------------------------------------------
(* How a call of an assistant handler ends *)

\* a call of an assistant handler is over
AssistantEnded == request.handler \in AssistantHandlers /\ request.pc \in {"done", "exited"}

\* the handler returned a reply object, the reply of its catch when something failed
ReturnedReply(req) ==
    /\ req.outcome = "returned"
    /\ req.resp.reply # ""
    /\ req.resp.didLogSet \in BOOLEAN
    /\ req.caught => req.resp = FailedResponse(req.dayKey)

\* C12: every call of assistantChatFn and of assistantLogDirectFn ends by returning a
\* reply object (a reply in natural language and a boolean didLogSet); a failure during
\* the request becomes the reply 'Failed to process assistant request.' with
\* didLogSet = false, and neither an exception nor a process exit escapes the handler.
C12_AlwaysReturnsReply == AssistantEnded => ReturnedReply(request)

\* what holds of the code: a call returns a reply object unless the process exits or
\* the save of a set the model proposed rejects, the failure its catch sees (no
\* session) gives the reply of the catch, and the reply is a text unless the model
\* answered without an intent to log and without a reply
C12_ReturnsReplyUnlessExit ==
    (AssistantEnded /\ request.pc = "done" /\ request.outcome # "rejected")
        => \/ ReturnedReply(request)
           \/ /\ request.intent # <<>>
              /\ request.intent[1].action # "log_set"
              /\ request.intent[1].reply = ""
              /\ request.resp = Response("", FALSE, request.dayKey, <<>>, <<>>)

\* the save of a set the model proposed rejected, and the handler's promise with it
C12_SaveRejectionEscapes ==
    /\ request.handler = "assistantChatFn"
    /\ request.pc = "done"
    /\ request.outcome = "rejected"
    /\ ~request.caught

-----------------------------------------------------------------------------
(* The score of an exercise name against a query *)

\* the words of a normalized string
WordsOf(norm) == splitTokens(norm)

\* the integer nearest to 70 * shared / most, the upper one of two equally near
NearestToShare(shared, most) ==
    CHOOSE r \in 0..70 : 2 * most * r <= 140 * shared + most
                         /\ 140 * shared + most < 2 * most * (r + 1)

\* the score the tiers give to a normalized query and a normalized exercise name
TierScore(queryNorm, exerciseNorm) ==
    IF queryNorm = "" \/ exerciseNorm = "" THEN 0
    ELSE IF queryNorm = exerciseNorm THEN 100
    ELSE IF includes(exerciseNorm, queryNorm) THEN 85
    ELSE IF includes(queryNorm, exerciseNorm) THEN 75
    ELSE NearestToShare(Cardinality(WordsOf(queryNorm) \cap WordsOf(exerciseNorm)),
                        Max(Cardinality(WordsOf(queryNorm)),
                            Cardinality(WordsOf(exerciseNorm))))

Scored == dkOp = "score"

\* C13: getExerciseScore returns an integer in 0..100 chosen by the first tier that
\* applies: 0 when either normalized string is empty, 100 when the normalized strings
\* are equal, 85 when the normalized exercise name contains the normalized query, 75
\* when the normalized query contains the normalized exercise name, otherwise
\* round(70 * |shared tokens| / max(|query tokens|, |exercise tokens|)).
C13_ScoreByFirstTier ==
    Scored =>
        /\ dkOut.score \in 0..100
        /\ dkOut.score = TierScore(normalizeName(dkIn.input),
                                   normalizeName(dkIn.exerciseName))

\* tiers the drawn inputs reach: each of 100, 85, 75, an overlap score and an empty string
C13_Witness ==
    /\ Scored
    /\ dkIn.input = "leg bench press day"
    /\ dkIn.exerciseName = "Close Grip Bench Press"
    /\ dkOut.score = 35

C13_WitnessContained == Scored /\ dkOut.score = 85 /\ dkIn.input = "squat"

C13_WitnessContaining == Scored /\ dkOut.score = 75

C13_WitnessEqual == Scored /\ dkOut.score = 100 /\ dkIn.input = "Push-Ups!"

C13_WitnessEmpty == Scored /\ dkIn.input = "!!!" /\ dkIn.exerciseName = "---" /\ dkOut.score = 0

ScoredBenchExample ==
    Scored /\ dkIn.input = "bench" /\ dkIn.exerciseName = "Incline Bench Press"

\* C14: a query that is one whole word of a longer exercise name is scored by token
\* overlap only: getExerciseScore("bench", "Incline Bench Press") is greater than 0
\* and less than 85.
C14_WholeWordScoredByOverlap ==
    ScoredBenchExample => dkOut.score > 0 /\ dkOut.score < 85

\* what holds of the code: a word of the name is a substring of it, so the tier of 85
\* applies before the tokens are compared
C14_WholeWordIsContained == ScoredBenchExample => dkOut.score = 85

-----------------------------------------------------------------------------
(* The suggestions built from the scores *)

Suggested == dkOp = "suggest"

\* the score of a name against the query of the call
QueryScore(name) == getExerciseScoreCached(dkIn.input, name)

ListedNamesOf(names) == {names[i] : i \in 1..Len(names)}

OfferedNames == {dkOut.suggestions[k].exerciseName : k \in 1..Len(dkOut.suggestions)}

\* suggestion k is the first one that offers its exercise
FirstOffer(k) ==
    \A j \in 1..(k - 1) :
        dkOut.suggestions[j].exerciseName # dkOut.suggestions[k].exerciseName

\* C15: buildSuggestions returns at most 3 suggestions, and the empty list when no
\* exercise name scores above 0 against the query; the exercises it offers are known
\* exercises with non-zero scores, none scoring below an exercise it leaves out, and
\* it offers them in descending score order.
C15_AtMostThreeBestFirst ==
    Suggested =>
        /\ Len(dkOut.suggestions) <= 3
        /\ (\A name \in ListedNamesOf(dkIn.exerciseNames) : QueryScore(name) = 0)
               => dkOut.suggestions = <<>>
        /\ OfferedNames \subseteq ListedNamesOf(dkIn.exerciseNames)
        /\ \A name \in OfferedNames :
               /\ QueryScore(name) > 0
               /\ \A other \in ListedNamesOf(dkIn.exerciseNames) \ OfferedNames :
                      QueryScore(other) <= QueryScore(name)
        /\ \A j, k \in 1..Len(dkOut.suggestions) :
               j < k /\ FirstOffer(j) /\ FirstOffer(k)
                   => QueryScore(dkOut.suggestions[j].exerciseName)
                          >= QueryScore(dkOut.suggestions[k].exerciseName)

\* four exercises score 100, 75, 23 and 35: the two best are offered, the best twice
C15_Witness ==
    /\ Suggested
    /\ dkIn.input = "leg press"
    /\ dkIn.exerciseNames = <<"Leg Press", "Press", "Incline Bench Press", "Bench Press">>
    /\ Len(dkOut.suggestions) = 3
    /\ dkOut.suggestions[1].exerciseName = "Leg Press"
    /\ dkOut.suggestions[2].exerciseName = "Press"
    /\ dkOut.suggestions[3].exerciseName = "Leg Press"

\* no exercise scores above 0 and nothing is suggested
C15_WitnessNone ==
    /\ Suggested
    /\ dkIn.input = "squat"
    /\ dkIn.exerciseNames = <<"Press", "Leg Press", "Bench Press">>
    /\ dkOut.suggestions = <<>>

-----------------------------------------------------------------------------
(* The fast path of assistantChatFn *)

\* assistantChatFn has run its fast path for the message
ChatBegan(message) == request.handler = "assistantChatFn" /\ request.message = message

KnownNames(req) == {req.exercises[i].name : i \in 1..Len(req.exercises)}

\* the request returned from the fast path: a set is logged and no model was called
CommittedOnFastPath(req) ==
    /\ req.pc = "done"
    /\ req.resp.didLogSet
    /\ req.wrote
    /\ req.attempts = <<>>
    /\ req.provider = ""

\* the last set of the log entry of an exercise, the one a commit has pushed
LastSetOf(exerciseId) ==
    {WorkoutLogModel[l].exercises[e].sets[Len(WorkoutLogModel[l].exercises[e].sets)] :
        <<l, e>> \in {<<l, e>> \in AllLogs \X (1..MaxExercises) :
                        /\ e <= Len(WorkoutLogModel[l].exercises)
                        /\ WorkoutLogModel[l].exercises[e].exerciseId = exerciseId
                        /\ WorkoutLogModel[l].exercises[e].sets # <<>>}}

\* C16: for the message "log 15 reps of push ups" with the known exercises "Push Ups"
\* and "Squats", assistantChatFn commits {Push Ups, reps, 15} on the fast path and
\* makes no call to an external model during the request.
C16_ExampleCommitsOnFastPath ==
    ChatBegan("log 15 reps of push ups") /\ KnownNames(request) = {"Push Ups", "Squats"}
        => /\ CommittedOnFastPath(request)
           /\ request.resp.reply = loggedReply("reps", 15, "Push Ups", request.dayKey)

\* what holds of the code: the name the fast path reads in that message is
\* "of push ups", which is no known exercise, so the request goes on to the model
C16_ExampleGoesToModel ==
    ChatBegan("log 15 reps of push ups") /\ KnownNames(request) = {"Push Ups", "Squats"}
        => /\ ~CommittedOnFastPath(request)
           /\ parseIntentFallbackCached(request.message).exerciseName = "of push ups"
           /\ request.provider = "google"

\* the same request without the word "of" is committed on the fast path
C16_WithoutOfCommits ==
    /\ ChatBegan("log 15 reps push ups")
    /\ KnownNames(request) = {"Push Ups", "Squats"}
    /\ CommittedOnFastPath(request)

\* the fast heuristic reads a log_set whose name, normalized and without spaces, is
\* that of a known exercise
FastCandidateKnown(req) ==
    /\ parseIntentFallbackCached(req.message).action = "log_set"
    /\ \E name \in KnownNames(req) :
           compactNameCached(name)
               = compactNameCached(parseIntentFallbackCached(req.message).exerciseName)

\* C17: whenever the fast heuristic yields a log_set candidate whose compact name is
\* that of a known exercise, assistantChatFn commits the set at once and returns
\* before any call to an external model, in every request context and for every
\* value of context.activeTab.
C17_KnownCandidateCommitsInEveryTab ==
    request.handler = "assistantChatFn" /\ FastCandidateKnown(request)
        => CommittedOnFastPath(request)

\* what holds of the code: it commits at once when the tab is absent or "exercises"
C17_KnownCandidateCommitsInExercisesTab ==
    (/\ request.handler = "assistantChatFn"
     /\ FastCandidateKnown(request)
     /\ request.activeTab \in {"", "exercises"})
        => CommittedOnFastPath(request)

\* in another tab the candidate is not committed and the model is called
C17_OtherTabCallsModel ==
    /\ request.handler = "assistantChatFn"
    /\ FastCandidateKnown(request)
    /\ request.activeTab = "history"
    /\ request.attempts # <<>>

\* C18: for the message "do 3 sets of pushups" with the known exercise "Push Ups" the
\* fast path does not commit, the request falls to the model path, and it ends with
\* a list of suggestions whose first entry is "Push Ups"; no set is committed.
C18_ExampleEndsWithSuggestions ==
    ChatBegan("do 3 sets of pushups") /\ "Push Ups" \in KnownNames(request)
        => /\ ~CommittedOnFastPath(request)
           /\ request.pc = "done"
                  => /\ ~request.resp.didLogSet
                     /\ ~request.wrote
                     /\ request.resp.suggestions # <<>>
                     /\ request.resp.suggestions[1].exerciseName = "Push Ups"

\* what holds of the code: the fast path reads no intent in that message, and the
\* end of the request in the exercises tab is the model's: a set for "Push Ups" when
\* it answers "pushups", the suggestions when it answers "push-up", neither otherwise
C18_ExampleFollowsModel ==
    ChatBegan("do 3 sets of pushups") /\ "Push Ups" \in KnownNames(request)
        => /\ ~CommittedOnFastPath(request)
           /\ request.pc = "done" /\ request.intent # <<>> /\ request.activeTab = "exercises"
                  => /\ request.intent[1].exerciseName = "pushups"
                            => request.resp.didLogSet /\ request.wrote
                     /\ request.intent[1].exerciseName = "push-up"
                            => /\ ~request.resp.didLogSet
                               /\ request.resp.suggestions[1].exerciseName = "Push Ups"
                     /\ request.intent[1].action = "unknown"
                            => ~request.resp.didLogSet /\ request.resp.suggestions = <<>>

-----------------------------------------------------------------------------
(* The affirmation shortcut of the chat *)

CallsMade == 1..Len(chat.calls)

\* the assistant messages before place at of the thread
AssistantTurnsBefore(at) ==
    {i \in 1..Len(chat.messages) : i < at /\ chat.messages[i].role = "assistant"}

\* the assistant turn that immediately precedes the user message at place at
PrecedingTurn(at) ==
    IF AssistantTurnsBefore(at) = {} THEN 0 ELSE LastOf(AssistantTurnsBefore(at))

\* the step appends an affirmative message of the user to the thread
SentAffirmative ==
    /\ Len(chat'.messages) = Len(chat.messages) + 1
    /\ chat'.messages[Len(chat'.messages)].role = "user"
    /\ isAffirmativeTable[chat'.messages[Len(chat'.messages)].text]

\* the last message of the thread is an assistant turn with unused suggestions
PrecedingUnused ==
    /\ chat.messages # <<>>
    /\ chat.messages[Len(chat.messages)].role = "assistant"
    /\ Len(chat.messages[Len(chat.messages)].suggestions) > 0
    /\ ~chat.messages[Len(chat.messages)].suggestionsUsed

\* the step calls the direct log for the first suggestion of the last message, calls
\* no model, and marks the message used
ShortcutTaken ==
    /\ chat'.directCall =
           Append(chat.directCall,
                  directLogPayload(chat.messages[Len(chat.messages)].suggestions[1]))
    /\ chat'.assistantCall = <<>>
    /\ chat'.messages[Len(chat.messages)].suggestionsUsed

\* the step delivers the answer of a direct-log call
DirectAnswered == Len(chat'.directCall) < Len(chat.directCall)

\* no two direct-log calls take their suggestion from the same assistant turn
OneCallPerTurn ==
    \A c, d \in CallsMade : c # d => chat.calls[c].turn # chat.calls[d].turn

\* an affirmative message after another one takes suggestions that came after it
SecondYesNeedsNew ==
    \A c, d \in CallsMade :
        c < d /\ chat.calls[c].via = "yes" /\ chat.calls[d].via = "yes"
            => chat.calls[d].turn > chat.calls[c].at

\* C19: when an assistant turn carries unused suggestions and the user's next message
\* is an affirmative token, the first suggestion is committed through the direct-log
\* call, without a model round-trip, and the turn is marked used; the suggestions of
\* one assistant turn lead to at most one committed set, and a second "yes" with no
\* new suggestions commits nothing.
C19_AffirmativeCommitsOnce ==
    /\ [](OneCallPerTurn /\ SecondYesNeedsNew)
    /\ [][/\ SentAffirmative /\ PrecedingUnused => ShortcutTaken
          /\ DirectAnswered => request.resp.didLogSet]_vars

\* what holds of the code: the affirmative message after unused suggestions makes the
\* direct-log call and marks the turn, a turn's suggestions make at most one call,
\* and the call commits a set when the chat is in the exercises tab
C19_ShortcutCallsOncePerTurn ==
    /\ []OneCallPerTurn
    /\ [][/\ SentAffirmative /\ PrecedingUnused => ShortcutTaken
          /\ DirectAnswered /\ chat.activeTab = "exercises"
                 => request.resp.didLogSet]_vars

\* a second "yes" has committed the suggestion of a turn older than the first "yes"
C19_SecondYesTookOlderTurn ==
    \E c, d \in CallsMade :
        /\ c < d
        /\ chat.calls[c].via = "yes"
        /\ chat.calls[d].via = "yes"
        /\ chat.calls[d].turn < chat.calls[c].at
        /\ Len(WorkoutLogModel) = 1
        /\ totalSets(WorkoutLogModel) = 2

\* C20: the affirmation shortcut consults only the immediately preceding assistant
\* turn: an affirmative message never commits a suggestion taken from an assistant
\* message older than the most recent one.
C20_OnlyPrecedingTurn ==
    \A c \in CallsMade :
        chat.calls[c].via = "yes" => chat.calls[c].turn = PrecedingTurn(chat.calls[c].at)

\* what holds of the code: the shortcut takes the most recent assistant message among
\* those that carry unused suggestions, however old
C20_TakesNewestUnused ==
    [][SentAffirmative /\ unusedSuggestionTurns(chat.messages) # {}
          => /\ Len(chat'.calls) = Len(chat.calls) + 1
             /\ chat'.calls[Len(chat'.calls)].turn
                    = LastOf(unusedSuggestionTurns(chat.messages))]_vars

\* an affirmative message took the suggestion of a turn that another assistant
\* message without suggestions had followed
C20_TookOlderTurn ==
    \E c \in CallsMade :
        /\ chat.calls[c].via = "yes"
        /\ chat.calls[c].turn < PrecedingTurn(chat.calls[c].at)
        /\ chat.messages[PrecedingTurn(chat.calls[c].at)].suggestions = <<>>

-----------------------------------------------------------------------------
(* The three suggestions *)

\* the exercise names of the call that score above 0 against the query
ScoringNames == {name \in ListedNamesOf(dkIn.exerciseNames) : QueryScore(name) > 0}

\* the reduced value of a requested value
ReducedValue(setType, value) ==
    IF setType = "timed" THEN Max(1, value - 5) ELSE Max(1, value \div 3)

\* primary and variation, and the secondary between them when a second name scores
SuggestionsInOrder(list, requested) ==
    /\ Len(list) = (IF Cardinality(ScoringNames) >= 2 THEN 3 ELSE 2)
    /\ list[1].exerciseName \in ScoringNames
    /\ \A name \in ScoringNames : QueryScore(name) <= QueryScore(list[1].exerciseName)
    /\ list[1].value = requested
    /\ Len(list) = 3
           => /\ list[2].exerciseName \in ScoringNames \ {list[1].exerciseName}
              /\ list[2].value = requested
    /\ list[Len(list)].exerciseName = list[1].exerciseName
    /\ list[Len(list)].value = ReducedValue(dkIn.setType, requested)
    /\ \A k \in 1..Len(list) : list[k].setType = dkIn.setType

\* C21: with at least one scoring candidate buildSuggestions builds, in this order, the
\* primary exercise at the requested value, the secondary exercise (if a second
\* candidate scores above 0) at the requested value, and the primary exercise at the
\* reduced value max(1, value - 5) for timed and max(1, floor(value / 3)) for reps; it
\* offers at most 2 distinct names and every suggested value is an integer >= 1.
C21_PrimarySecondaryVariation ==
    Suggested /\ ScoringNames # {}
        => /\ SuggestionsInOrder(dkOut.suggestions, dkIn.value)
           /\ Cardinality(OfferedNames) <= 2
           /\ \A k \in 1..Len(dkOut.suggestions) :
                  dkOut.suggestions[k].value # NaN /\ dkOut.suggestions[k].value >= 1

\* what holds of the code: the order and the names always, the values when the
\* requested value is a number
C21_OrderAndNumericValues ==
    Suggested /\ ScoringNames # {}
        => /\ Cardinality(OfferedNames) <= 2
           /\ dkIn.value # NaN
                  => /\ SuggestionsInOrder(dkOut.suggestions, dkIn.value)
                     /\ \A k \in 1..Len(dkOut.suggestions) :
                            dkOut.suggestions[k].value >= 1
           /\ dkIn.value = NaN
                  => \A k \in 1..Len(dkOut.suggestions) :
                         dkOut.suggestions[k].value = NaN

\* three suggestions for 15 timed seconds: 15 of the best, 15 of the second, 10 of the best
C21_ThreeBuilt ==
    /\ Suggested
    /\ dkIn.setType = "timed"
    /\ dkIn.value = 15
    /\ Len(dkOut.suggestions) = 3
    /\ dkOut.suggestions[3].value = 10
    /\ dkOut.suggestions[3].label = "10 sec of " \o dkOut.suggestions[1].exerciseName

\* assistantChatFn returned suggestions whose value is no number
C21_NaNSuggestionReturned ==
    /\ request.handler = "assistantChatFn"
    /\ request.pc = "done"
    /\ request.resp.suggestions # <<>>
    /\ request.resp.suggestions[1].value = NaN
    /\ request.resp.suggestions[1].label = "NaN reps of Push Ups"

(* One record per name *)

SameName(i, j) ==
    /\ i # j
    /\ ExerciseModel[i].userId = ExerciseModel[j].userId
    /\ trim(ExerciseModel[i].name) = trim(ExerciseModel[j].name)

NamesAreUnique == \A i, j \in 1..Len(ExerciseModel) : ~SameName(i, j)

\* no weekday's view lists an exercise twice
ListedOnce ==
    \A v \in 1..Len(WeekViewModel) :
        \A a, b \in 1..Len(WeekViewModel[v].exercises) :
            WeekViewModel[v].exercises[a] = WeekViewModel[v].exercises[b] => a = b

\* the name was some other record's of that user before the step
NameWasTaken(userId, name, i) ==
    \E j \in 1..Len(ExerciseModel) :
        /\ j # i
        /\ ExerciseModel[j].userId = userId
        /\ ExerciseModel[j].name = name

\* a step keeps every record there is, adds one only under a name that user did not
\* have, and changes a name only to one that no other record of that user had
ReusesOrKeeps ==
    /\ Len(ExerciseModel') >= Len(ExerciseModel)
    /\ \A i \in 1..Len(ExerciseModel) :
           /\ ExerciseModel'[i].userId = ExerciseModel[i].userId
           /\ ExerciseModel'[i].name # ExerciseModel[i].name =>
                  ~NameWasTaken(ExerciseModel[i].userId, ExerciseModel'[i].name, i)
    /\ \A i \in (Len(ExerciseModel) + 1)..Len(ExerciseModel') :
           ~NameWasTaken(ExerciseModel'[i].userId, ExerciseModel'[i].name, i)
    /\ (request'.handler = "renameWorkoutExerciseFn"
           /\ NameWasTaken("u1", trim(request'.exerciseName), request'.exerciseId))
          => ExerciseModel' = ExerciseModel

\* C22: after any sequence of addWorkoutExerciseFn and renameWorkoutExerciseFn no two
\* exercise records of one user have the same trimmed name: adding a name the user has
\* reuses the record and lists it at most once in the weekday's view, and renaming to
\* a name another exercise of the user has leaves both records as they were
C22_OneRecordPerName == [](NamesAreUnique /\ ListedOnce) /\ [][ReusesOrKeeps]_vars

\* the user has two exercises listed on a weekday, and the last request tried to give
\* one the other's name
C22_Witness ==
    /\ request.handler = "renameWorkoutExerciseFn"
    /\ ~request.wrote
    /\ NameWasTaken("u1", trim(request.exerciseName), request.exerciseId)
    /\ request.exerciseId \in exerciseIdsOf(ExerciseModel, "u1")
    /\ Cardinality(exerciseIdsOf(ExerciseModel, "u1")) >= 2
    /\ \E v \in 1..Len(WeekViewModel) : Len(WeekViewModel[v].exercises) >= 2

\* the last request added a name the user already had on that weekday
C22_WitnessAddedAgain ==
    /\ request.handler = "addWorkoutExerciseFn"
    /\ request.outcome = "success"
    /\ ~request.wrote
    /\ Len(ExerciseModel) = MaxNamed

-----------------------------------------------------------------------------
(* The outcome of an assistant turn *)

Committed(resp) == resp.didLogSet /\ resp.undo # <<>> /\ resp.suggestions = <<>>

Suggesting(resp) == ~resp.didLogSet /\ resp.suggestions # <<>>

Clarifying(resp) == ~resp.didLogSet /\ resp.suggestions = <<>> /\ resp.reply # ""

\* the response is of exactly one of the three outcomes
OneOutcome(resp) ==
    Cardinality({o \in {"Committed", "Suggesting", "Clarifying"} :
                    \/ o = "Committed" /\ Committed(resp)
                    \/ o = "Suggesting" /\ Suggesting(resp)
                    \/ o = "Clarifying" /\ Clarifying(resp)}) = 1

\* the step ends a turn of the assistant
TurnEnds == request'.handler \in AssistantHandlers /\ request'.pc = "done" /\ clock' = clock

\* the step stores one more set
SetWritten == totalSets(WorkoutLogModel') = totalSets(WorkoutLogModel) + 1

WritesIffLogged == TurnEnds => (SetWritten <=> request'.resp.didLogSet)

\* C23: every assistant turn ends in exactly one outcome: Committed (didLogSet = true,
\* an undo handle, no suggestions), Suggesting (didLogSet = false, a non-empty list of
\* suggestions) or Clarifying (didLogSet = false, no suggestions, a reply text); no
\* response reports a logged set and carries suggestions, and a set is written if and
\* only if didLogSet = true
C23_EndsInOneOutcome ==
    /\ [](AssistantEnded =>
             /\ request.outcome = "returned"
             /\ OneOutcome(request.resp)
             /\ ~(request.resp.didLogSet /\ request.resp.suggestions # <<>>))
    /\ [][WritesIffLogged]_vars

\* what holds of the code: a turn whose handler returns a response ends in exactly one
\* outcome unless the model answered without an intent to log and without a reply,
\* and a set is written if and only if didLogSet = true
C23_ReturnedEndsInOneOutcome ==
    /\ []((AssistantEnded /\ request.outcome = "returned") =>
             /\ \/ OneOutcome(request.resp)
                \/ request.resp = Response("", FALSE, request.dayKey, <<>>, <<>>)
             /\ ~(request.resp.didLogSet /\ request.resp.suggestions # <<>>))
    /\ [][WritesIffLogged]_vars

\* a turn ended without a response: the save of the model's set rejected after the
\* day's log was created
C23_EndedWithoutOutcome ==
    /\ request.handler = "assistantChatFn"
    /\ request.pc = "done"
    /\ request.outcome = "rejected"
    /\ request.wrote

\* a turn ended with a response that has no reply text, no suggestions and no set
C23_EndedWithoutReply ==
    /\ request.handler = "assistantChatFn"
    /\ request.pc = "done"
    /\ request.outcome = "returned"
    /\ request.resp = Response("", FALSE, request.dayKey, <<>>, <<>>)

-----------------------------------------------------------------------------
(* The day of a set the assistant commits *)

\* the sets of log number l of a database, none when it has no such log
SetsOfLog(logsDb, l) == IF l <= Len(logsDb) THEN FlatSets(logsDb[l].exercises, 1) ELSE <<>>

\* the step stored one set more in log number l and changed no other log
OneMoreSetIn(l) ==
    /\ l <= Len(WorkoutLogModel')
    /\ Len(SetsOfLog(WorkoutLogModel', l)) = Len(SetsOfLog(WorkoutLogModel, l)) + 1
    /\ \A k \in 1..Len(WorkoutLogModel) :
           k # l => WorkoutLogModel'[k] = WorkoutLogModel[k]
    /\ Len(WorkoutLogModel') <= Max(l, Len(WorkoutLogModel))

\* the step stored a set in the user's log of the day and stamped it with an instant
\* of that day
StoredOnDay(userId, day) ==
    \E l \in 1..Len(WorkoutLogModel') :
        /\ OneMoreSetIn(l)
        /\ WorkoutLogModel'[l].userId = userId
        /\ BerlinDayOf(WorkoutLogModel'[l].date) = day
        /\ \E e \in 1..Len(WorkoutLogModel'[l].exercises) :
               /\ WorkoutLogModel'[l].exercises[e].sets # <<>>
               /\ BerlinDayOf(WorkoutLogModel'[l].exercises[e].sets[
                       Len(WorkoutLogModel'[l].exercises[e].sets)].loggedAt) = day

CommitsToday ==
    (TurnEnds /\ request'.resp.didLogSet) =>
        /\ StoredOnDay(request'.userId, BerlinDayOf(Now))
        /\ request'.resp.selectedDay = BerlinDayOf(Now)
        /\ request'.resp.undo[1].selectedDay = BerlinDayOf(Now)

\* C24: every set the assistant commits, from a chat message or from a suggestion, is
\* stored in the log of the day it is in Europe/Berlin when the request is handled,
\* whatever day the client shows; the selectedDay of the response and of its undo
\* handle is that day
C24_CommitsToBerlinToday == [][CommitsToday]_vars

\* the assistant committed on 2024-03-30 while the user's other log is of 2024-03-31,
\* the day the client added a set for
C24_Witness ==
    /\ request.handler \in AssistantHandlers
    /\ request.pc = "done"
    /\ request.resp.didLogSet
    /\ request.resp.selectedDay = "2024-03-30"
    /\ Len(WorkoutLogModel) = 2
    /\ BerlinDayOf(WorkoutLogModel[1].date) = "2024-03-31"
    /\ BerlinDayOf(WorkoutLogModel[2].date) = "2024-03-30"
    /\ Len(SetsOfLog(WorkoutLogModel, 2)) = 1

\* the chat committed after midnight a request that began before it
C24_WitnessAcrossMidnight ==
    /\ request.handler = "assistantChatFn"
    /\ request.resp.didLogSet
    /\ request.dayKey = "2024-03-30"
    /\ request.resp.selectedDay = "2024-03-31"

-----------------------------------------------------------------------------
(* The timestamp of a new log *)

\* the logs of a user that the query of a day finds
LogsOfDay(userId, dayKey) ==
    {i \in AllLogs : logMatches(WorkoutLogModel[i], userId,
                                getWeekdayFromDayKey(dayKey).weekday,
                                getUtcRangeForDayKey(dayKey))}

\* the timestamp lies in the range of the day and shows the day's date in the zone
StampOfDay ==
    /\ dkOut.range.ok
    /\ InRange(dkOut.stamp, dkOut.range)
    /\ LocalFields(dkOut.stamp).date = [year |-> dkIn.year, month |-> dkIn.month,
                                         day |-> dkIn.day]

\* every log is the only one its day's query finds for its user, and the day of the
\* last add-set call has exactly one
OneLogPerDay ==
    /\ \A i \in AllLogs :
           LogsOfDay(WorkoutLogModel[i].userId, BerlinDayOf(WorkoutLogModel[i].date)) = {i}
    /\ (request.handler \in {"addWorkoutSetFn", "assistantLogDirectFn"} /\ request.wrote)
           => Cardinality(LogsOfDay(request.userId, request.dayKey)) = 1

\* C25: for every valid day key k and every time of day the timestamp
\* createLogTimestampForDayKey(k) gives a new log lies inside getUtcRangeForDayKey(k),
\* on the days the offset changes and for local times that do not exist or occur
\* twice too; so after add-set calls made one after the other there is exactly one log
\* for the user and the day, and a later call finds it
C25_TimestampInsideDayRange ==
    /\ dkOp = "logTimestamp" => StampOfDay
    /\ dkOp = "idle" => OneLogPerDay

\* the local time 02:30 does not exist on 2024-03-31; the log is stamped 03:30
C25_Witness ==
    /\ dkOp = "logTimestamp"
    /\ dkKey = "2024-03-31"
    /\ dkIn.nowOn = "winter" /\ dkIn.hour = 1 /\ dkIn.minute = 30
    /\ LocalFields(dkOut.stamp).ms \div MsPerHour = 3

\* the local time 02:30 occurs twice on 2024-10-27
C25_WitnessTwice ==
    /\ dkOp = "logTimestamp"
    /\ dkKey = "2024-10-27"
    /\ dkIn.nowOn = "summer" /\ dkIn.hour = 0 /\ dkIn.minute = 30
    /\ LocalFields(dkOut.stamp).ms \div MsPerHour = 2

\* a later add-set call found the log of the first and added its set
C25_WitnessFound ==
    /\ dkOp = "idle"
    /\ request.handler = "addWorkoutSetFn"
    /\ request.wrote
    /\ Cardinality(LogsOfDay("u1", request.dayKey)) = 1
    /\ \E i \in LogsOfDay("u1", request.dayKey) : Len(SetsOfLog(WorkoutLogModel, i)) = 2

-----------------------------------------------------------------------------
(* Add-set requests at the same time *)

\* both requests are over and were for the same day
BothOver(day) ==
    \A r \in Requests : dkIn[r].pc \in {"done", "failed"} /\ dkIn[r].day = day

\* the set of request r is in log number i
HoldsSetOf(i, r) ==
    \E k \in 1..Len(SetsOfLog(WorkoutLogModel, i)) :
        SetsOfLog(WorkoutLogModel, i)[k].reps = ValueOf(r)

\* C26: under every interleaving of add-set requests of one user for the same day that
\* are in flight at the same time (addWorkoutSetFn, logAssistantSet), afterwards at
\* most one log exists for the user and the day and it holds the set of every
\* request: no two logs for a day, no lost set
C26_OneLogEverySet ==
    \A day \in KnownDayKeys :
        (dkOp = "concurrent" /\ BothOver(day)) =>
            /\ Cardinality(LogsOfDay("u1", day)) <= 1
            /\ \A i \in LogsOfDay("u1", day), r \in Requests : HoldsSetOf(i, r)

\* what holds of the code: every request that did not fail has its set in a log of
\* the day
C26_SavedSetsAreStored ==
    \A r \in Requests :
        (dkOp = "concurrent" /\ dkIn[r].pc = "done") =>
            \E i \in LogsOfDay("u1", dkIn[r].day) : HoldsSetOf(i, r)

\* both requests found no log and each created one: two logs for one day
C26_TwoLogs ==
    /\ dkOp = "concurrent"
    /\ BothOver("2024-03-31")
    /\ \A r \in Requests : dkIn[r].pc = "done"
    /\ Cardinality(LogsOfDay("u1", "2024-03-31")) = 2

\* the second create met the first's key in the unique index and its request failed
C26_DuplicateKey ==
    /\ dkOp = "concurrent"
    /\ \E r \in Requests : dkIn[r].pc = "failed" /\ dkIn[r].doc = <<>>

\* both requests held the same document and both sets are in it
C26_BothInOneLog ==
    /\ dkOp = "concurrent"
    /\ BothOver("2024-03-31")
    /\ Len(WorkoutLogModel) = 1
    /\ \A r \in Requests : HoldsSetOf(1, r)

-----------------------------------------------------------------------------
(* Delete log *)

\* the step is the call of removeWorkoutSetFn that a click on "Delete log" made
UndoCalled == chat.undoCall # <<>> /\ ~UndoWaits /\ request'.handler = "removeWorkoutSetFn"

\* the step appended 'Deleted logged set.'
DeletedShown ==
    /\ Len(chat'.messages) = Len(chat.messages) + 1
    /\ chat'.messages[Len(chat'.messages)].text = DeletedReply

\* the set holds what the undo token names
IsLoggedSet(set, logId) ==
    /\ set.loggedAt = logId.loggedAt
    /\ set.type = logId.setType
    /\ (IF set.type = "timed" THEN set.duration ELSE set.reps) = logId.value

\* the sets of the logs that the token names
LoggedSets(logsDb, logId) ==
    {at \in {<<l, k>> \in (1..Len(logsDb)) \X (1..MaxSets) : k <= Len(SetsOfLog(logsDb, l))} :
        IsLoggedSet(SetsOfLog(logsDb, at[1])[at[2]], logId)}

\* the step removed one set that the token names, and no other set
RemovesLoggedSet(logId) ==
    /\ totalSets(WorkoutLogModel') = totalSets(WorkoutLogModel) - 1
    /\ Cardinality(LoggedSets(WorkoutLogModel', logId))
           = Cardinality(LoggedSets(WorkoutLogModel, logId)) - 1

\* C27: a set logged through the assistant and then deleted with "Delete log" is gone:
\* removeWorkoutSetFn called with undo.selectedDay and undo.logId removes exactly the
\* set that was logged, and 'Deleted logged set.' is shown only when the set is gone
C27_DeleteLogRemovesTheSet ==
    /\ [][UndoCalled => RemovesLoggedSet(chat.undoCall[1].logId)]_vars
    /\ [][DeletedShown => request.wrote]_vars

\* what holds of the code: the call made for "Delete log" changes no log, and
\* 'Deleted logged set.' is shown after it
C27_DeleteLogRemovesNothing ==
    /\ [][UndoCalled => (WorkoutLogModel' = WorkoutLogModel /\ request'.outcome = "success")]_vars
    /\ [][DeletedShown => ~request.wrote]_vars

\* 'Deleted logged set.' is shown and the set the assistant logged is stored
C27_ShownWhileStored ==
    /\ chat.messages # <<>>
    /\ chat.messages[Len(chat.messages)].text = DeletedReply
    /\ \E i \in 1..Len(chat.messages) :
           /\ chat.messages[i].undo # <<>>
           /\ chat.messages[i].id \in chat.undoUsed
           /\ LoggedSets(WorkoutLogModel, chat.messages[i].undo[1].logId) # {}

-----------------------------------------------------------------------------
(* Deleting a set of the day view *)

\* the step is a call of removeWorkoutSetFn
RemoveCalled == request'.handler = "removeWorkoutSetFn" /\ dkOut' = dkOut

\* the sets of the day's log before and after the step
SetsBefore == IF WorkoutLogModel = <<>> THEN <<>> ELSE SetsOfLog(WorkoutLogModel, 1)

SetsAfter == IF WorkoutLogModel' = <<>> THEN <<>> ELSE SetsOfLog(WorkoutLogModel', 1)

\* the step removed the set at position p and no other
RemovedAt(p) ==
    SetsAfter = SubSeq(SetsBefore, 1, p - 1) \o SubSeq(SetsBefore, p + 1, Len(SetsBefore))

\* the step removed nothing, or one set that equals the one shown
RemovedShownOrNothing(shown) ==
    \/ SetsAfter = SetsBefore
    \/ \E p \in 1..Len(SetsBefore) : RemovedAt(p) /\ SetsBefore[p] = shown.set

\* C28: removeWorkoutSetFn removes exactly the set that getWorkoutDayFn showed under the
\* logId, or nothing, whatever removals and additions happened between the client's
\* read and its delete; an id with an index out of range or negative removes nothing
C28_RemovesShownSetOrNothing ==
    [][RemoveCalled =>
          /\ \A shown \in dkOut :
                 shown.id = request'.logId => RemovedShownOrNothing(shown)
          /\ request'.logId \in UnissuedIds => SetsAfter = SetsBefore]_vars

\* what holds of the code: a delete removes at most one set; an id with a negative
\* exercise index or an index past the end removes nothing
C28_RemovesAtMostOne ==
    [][RemoveCalled =>
          /\ \/ SetsAfter = SetsBefore
             \/ \E p \in 1..Len(SetsBefore) : RemovedAt(p)
          /\ request'.logId \in {"-1:0", "0:5", "3:0"} => SetsAfter = SetsBefore]_vars

\* the id "0:0" was shown for the set of 11 reps; after another delete it removed the
\* set of 12 reps
C28_RemovedAnotherSet ==
    /\ request.handler = "removeWorkoutSetFn"
    /\ request.logId = "0:0"
    /\ request.wrote
    /\ \E shown \in dkOut : shown.id = "0:0" /\ shown.set.reps = 11
    /\ \E shown \in dkOut : shown.id = "0:1" /\ shown.set.reps = 12
    /\ WorkoutLogModel[1].exercises = <<>>

\* the id "0:-1" removed a set
C28_NegativeIndexRemoved ==
    /\ request.handler = "removeWorkoutSetFn"
    /\ request.logId = "0:-1"
    /\ request.wrote

-----------------------------------------------------------------------------
(* Hold to record *)

Voice == dkOp = "voice"

Recording(s) == {r \in 1..Len(s.recorders) : s.recorders[r].state = "recording"}

\* tracks of a stream are live although its recorder is not waiting for its stop event
HeldStreams(s) ==
    {r \in 1..Len(s.recorders) : s.recorders[r].tracks /\ s.recorders[r].state # "inactive"}

\* C29: while the pointer is up no recorder is recording, and no stream is live
\* except the one whose recorder was stopped and has its stop event still to come
C29_NoRecordingAfterRelease ==
    (Voice /\ ~dkIn.pressed) => (Recording(dkIn) = {} /\ HeldStreams(dkIn) = {})

\* what holds of the code: a release when the recording has started stops the
\* recorder the ref points to in the same step, and a recorder that is recording
\* with the pointer up is the one a 15 s timeout, or a press, is still to stop,
\* or one the ref no longer points to
C29_ReleaseStopsStartedRecorder ==
    [][(Voice /\ dkIn.pressed /\ ~dkIn'.pressed /\ dkIn.hasRecordingStarted
              /\ dkIn.mediaRecorder # 0)
          => dkIn'.recorders[dkIn.mediaRecorder].state # "recording"]_vars

\* the pointer went up while getUserMedia was pending, and the recording started
\* after that: only the 15 s timeout is there to stop it
C29_StartedAfterRelease ==
    /\ Voice
    /\ ~dkIn.pressed
    /\ ~dkIn.holdStartTimeout
    /\ dkIn.pending = 0
    /\ Len(dkIn.recorders) = 1
    /\ dkIn.recorders[1].state = "recording"
    /\ dkIn.recordingTimeouts = {1}

\* two getUserMedia calls resolved one after the other: the first recorder records
\* with no ref to it and no timeout left, and its stream stays live
C29_RecorderNeverStopped ==
    /\ Voice
    /\ ~dkIn.pressed
    /\ dkIn.pending = 0
    /\ dkIn.recordingTimeouts = {}
    /\ Recording(dkIn) # {}
    /\ \A r \in 1..Len(dkIn.recorders) : dkIn.recorders[r].state # "inactive"

\* a release with the recording started: the recorder stopped in that step
C29_StoppedOnRelease ==
    /\ Voice
    /\ ~dkIn.pressed
    /\ Len(dkIn.recorders) = 1
    /\ dkIn.recorders[1].state = "inactive"
    /\ dkIn.recordingTimeouts = {}

-----------------------------------------------------------------------------
(* The promise of transcribeWithGoogleLive *)

Settled == dkIn.promise # "pending"

\* a resolved promise holds a transcript: not empty, trimmed, at most 260 characters,
\* none of the blocked patterns in it
ResolvedWithTranscript ==
    dkIn.promise = "resolved" =>
        /\ dkIn.value # ""
        /\ trim(dkIn.value) = dkIn.value
        /\ Len(dkIn.value) <= MaxTranscript
        /\ ~isGuardrailViolation(dkIn.value)

SettledOnce ==
    /\ dkIn.settled <= 1
    /\ Settled <=> dkIn.settled = 1
    /\ Settled <=> dkIn.isSettled

\* nothing is pending once the socket closed or the timeout fired or was cleared
NotLeftPending == (dkIn.socket = "closed" \/ ~dkIn.timeout) => Settled

OutcomeKept == Settled => (dkIn'.promise = dkIn.promise /\ dkIn'.value = dkIn.value)

\* C30: for every order of the open, message, error and close events and the
\* timeout, resolve or reject is called at most once, a resolved promise holds a
\* non-empty transcript of at most 260 characters that passes the guardrail, the
\* promise is settled once the socket closed or the timeout elapsed, an event
\* after that leaves the outcome as it is, and the promise is settled eventually
C30_SettledOnceAndEventually ==
    /\ [](SettledOnce /\ ResolvedWithTranscript /\ NotLeftPending)
    /\ [][OutcomeKept]_vars
    /\ <>Settled

\* the promise resolved with the transcript of a regular expression match, and
\* three messages and the close event were handled
C30_Witness ==
    /\ dkOp = "live"
    /\ dkIn.promise = "resolved"
    /\ dkIn.value = "twelve lunges now"
    /\ dkIn.messageCount = MaxLiveMessages
    /\ dkIn.socket = "closed"

\* the timeout rejected the promise; a message with a transcript and the close
\* event came after it
C30_WitnessLateEvents ==
    /\ dkOp = "live"
    /\ dkIn.promise = "rejected"
    /\ dkIn.value = "Live API transcription timed out"
    /\ dkIn.transcript # ""
    /\ dkIn.socket = "closed"

\* the promise resolved with a transcript of 260 characters
C30_WitnessLongest ==
    /\ dkOp = "live"
    /\ dkIn.promise = "resolved"
    /\ Len(dkIn.value) = MaxTranscript

====
